---- MODULE Spec2Model ----
(***************************************************************************)
(* State-machine model of the dot-chess engine: the bitboard primitives,   *)
(* the Board with its flags (board/mod.rs), the Game with its State, FEN   *)
(* parser/printer and Zobrist hash (game.rs), perft (perft.rs) and the     *)
(* host contract's move handler.                                           *)
(*                                                                         *)
(* A BitBoard (u64) is the set of its set bit indices, 0 = A1 .. 63 = H8,  *)
(* index = 8 * rank + file.  A u32 Zobrist hash is the set of its set bit  *)
(* indices, so that XOR is the symmetric difference.                       *)
(***************************************************************************)
EXTENDS Integers, Sequences, FiniteSets, TLC

\* ------------------------------------------------------------------------
\* Squares, files, ranks, sides, pieces
\* ------------------------------------------------------------------------
Squares == 0..63

FileOf(sq) == sq % 8

RankOf(sq) == sq \div 8

SquareOf(file, rank) == 8 * rank + file

A1 == 0
C1 == 2
D1 == 3
E1 == 4
F1 == 5
G1 == 6
H1 == 7
A8 == 56
C8 == 58
D8 == 59
E8 == 60
F8 == 61
G8 == 62
H8 == 63

Sides == {"White", "Black"}

flip(side) == IF side = "White" THEN "Black" ELSE "White"

Pieces == {"Pawn", "Knight", "Bishop", "Rook", "Queen", "King"}

\* Option::None for a piece, and for a (side, piece) pair
None == "None"

NoPiece == [side |-> None, piece |-> None]

Min(S) == CHOOSE x \in S : \A y \in S : x <= y

Max(S) == CHOOSE x \in S : \A y \in S : x >= y

\* ------------------------------------------------------------------------
\* BitBoard primitives (board/bitboard.rs)
\* ------------------------------------------------------------------------
EMPTY == {}

FULL == Squares

\* u64 << n and u64 >> n : bits shifted past either end are dropped
Shl(bb, n) == {s + n : s \in bb} \cap Squares

Shr(bb, n) == {s - n : s \in bb} \cap Squares

RANK_1 == {s \in Squares : RankOf(s) = 0}
RANK_2 == {s \in Squares : RankOf(s) = 1}
RANK_3 == {s \in Squares : RankOf(s) = 2}
RANK_4 == {s \in Squares : RankOf(s) = 3}
RANK_5 == {s \in Squares : RankOf(s) = 4}
RANK_6 == {s \in Squares : RankOf(s) = 5}
RANK_7 == {s \in Squares : RankOf(s) = 6}
RANK_8 == {s \in Squares : RankOf(s) = 7}
FILE_A == {s \in Squares : FileOf(s) = 0}
FILE_B == {s \in Squares : FileOf(s) = 1}
FILE_C == {s \in Squares : FileOf(s) = 2}
FILE_G == {s \in Squares : FileOf(s) = 6}
FILE_H == {s \in Squares : FileOf(s) = 7}
NOT_FILE_A == Squares \ FILE_A
NOT_FILE_H == Squares \ FILE_H
NOT_FILE_AB == Squares \ (FILE_A \cup FILE_B)
NOT_FILE_GH == Squares \ (FILE_G \cup FILE_H)

\* 0x8040201008040201 and 0x0102040810204080
MAIN_DIAGONAL == {9 * i : i \in 0..7}
MAIN_ANTI_DIAGONAL == {7 * i : i \in 1..8}

north_one(bb) == Shl(bb, 8)

south_one(bb) == Shr(bb, 8)

\* the shift to the east with no mask : a square of file H gives the square
\* of file A one rank up
east_one_unmasked(bb) == Shl(bb, 1)

east_one(bb) == Shl(bb, 1) \cap NOT_FILE_A

north_east_one(bb) == Shl(bb, 9) \cap NOT_FILE_A

south_east_one(bb) == Shr(bb, 7) \cap NOT_FILE_A

west_one(bb) == Shr(bb, 1) \cap NOT_FILE_H

south_west_one(bb) == Shr(bb, 9) \cap NOT_FILE_H

north_west_one(bb) == Shl(bb, 7) \cap NOT_FILE_H

\* !blsfill : the bits above the square ; blsfill >> 1 : the bits below it
positive(sq) == {s \in Squares : s > sq}

negative(sq) == {s \in Squares : s < sq}

rank_mask(sq) == Shl(RANK_1, 8 * RankOf(sq))

file_mask(sq) == Shl(FILE_A, FileOf(sq))

diagonal_mask(sq) ==
    LET diag == 8 * FileOf(sq) - 8 * RankOf(sq)
        nort == IF diag < 0 THEN -diag ELSE 0
        sout == IF diag > 0 THEN diag ELSE 0
    IN  Shl(Shr(MAIN_DIAGONAL, sout), nort)

anti_diagonal_mask(sq) ==
    LET diag == 56 - 8 * FileOf(sq) - 8 * RankOf(sq)
        nort == IF diag < 0 THEN -diag ELSE 0
        sout == IF diag > 0 THEN diag ELSE 0
    IN  Shl(Shr(MAIN_ANTI_DIAGONAL, sout), nort)

Directions ==
    {"NorthWest", "North", "NorthEast", "East",
     "SouthEast", "South", "SouthWest", "West"}

\* the directions in which the file does not grow
direction_negative_by_file(direction) ==
    direction \in {"South", "SouthWest", "West", "NorthWest"}

\* direction.rs : the directions in which the bit index grows
direction_negative(direction) ==
    direction \in {"SouthEast", "South", "SouthWest", "West"}

ray_mask(sq, direction) ==
    CASE direction = "North" -> file_mask(sq) \cap positive(sq)
      [] direction = "NorthEast" -> diagonal_mask(sq) \cap positive(sq)
      [] direction = "East" -> rank_mask(sq) \cap positive(sq)
      [] direction = "SouthEast" -> anti_diagonal_mask(sq) \cap negative(sq)
      [] direction = "South" -> file_mask(sq) \cap negative(sq)
      [] direction = "SouthWest" -> diagonal_mask(sq) \cap negative(sq)
      [] direction = "West" -> rank_mask(sq) \cap negative(sq)
      [] direction = "NorthWest" -> anti_diagonal_mask(sq) \cap positive(sq)

\* ray_mask, tabulated
ray_mask_table ==
    [sq \in Squares |-> [direction \in Directions |-> ray_mask(sq, direction)]]

knight_attacks_mask(sq) ==
    LET bb == {sq} IN
    (Shl(bb, 17) \cap NOT_FILE_A) \cup (Shl(bb, 10) \cap NOT_FILE_AB) \cup
    (Shr(bb, 6) \cap NOT_FILE_AB) \cup (Shr(bb, 15) \cap NOT_FILE_A) \cup
    (Shl(bb, 15) \cap NOT_FILE_H) \cup (Shl(bb, 6) \cap NOT_FILE_GH) \cup
    (Shr(bb, 10) \cap NOT_FILE_GH) \cup (Shr(bb, 17) \cap NOT_FILE_H)

king_attacks_mask(sq) ==
    LET king == {sq}
        attacks == east_one(king) \cup west_one(king) \cup king
        all == attacks \cup north_one(attacks) \cup south_one(attacks)
    IN  all \ king

\* knight_attacks_mask and king_attacks_mask, tabulated
knight_attacks_table == [sq \in Squares |-> knight_attacks_mask(sq)]

king_attacks_table == [sq \in Squares |-> king_attacks_mask(sq)]

white_pawn_any_attacks_mask(bb) == north_east_one(bb) \cup north_west_one(bb)

black_pawn_any_attacks_mask(bb) == south_east_one(bb) \cup south_west_one(bb)

bit_scan_forward(bb) == Min(bb)

bit_scan_reverse(bb) == Max(bb)

\* ------------------------------------------------------------------------
\* Board : eight bit sets (board/mod.rs)
\* ------------------------------------------------------------------------
occupied(board) == board.black \cup board.white

get_pieces_by_side(board, side) ==
    IF side = "White" THEN board.white ELSE board.black

kind_set(board, piece) ==
    CASE piece = "Pawn" -> board.pawns
      [] piece = "Knight" -> board.knights
      [] piece = "Bishop" -> board.bishops
      [] piece = "Rook" -> board.rooks
      [] piece = "Queen" -> board.queens
      [] piece = "King" -> board.kings

set_piece(board, side, piece, square) ==
    LET b1 == IF side = "White"
              THEN [board EXCEPT !.white = @ \cup {square}]
              ELSE [board EXCEPT !.black = @ \cup {square}]
    IN  CASE piece = "Pawn" -> [b1 EXCEPT !.pawns = @ \cup {square}]
          [] piece = "Knight" -> [b1 EXCEPT !.knights = @ \cup {square}]
          [] piece = "Bishop" -> [b1 EXCEPT !.bishops = @ \cup {square}]
          [] piece = "Rook" -> [b1 EXCEPT !.rooks = @ \cup {square}]
          [] piece = "Queen" -> [b1 EXCEPT !.queens = @ \cup {square}]
          [] piece = "King" -> [b1 EXCEPT !.kings = @ \cup {square}]

\* the pawns set is not among the sets the source clears
clear_piece(board, square) ==
    [board EXCEPT !.black = @ \ {square},
                  !.white = @ \ {square},
                  !.knights = @ \ {square},
                  !.bishops = @ \ {square},
                  !.rooks = @ \ {square},
                  !.queens = @ \ {square},
                  !.kings = @ \ {square}]

\* Option<(Side, Piece)> : NoPiece, or a record of side and piece
get_piece_at(board, square) ==
    IF square \notin occupied(board) THEN NoPiece
    ELSE [side |-> IF square \in board.white THEN "White" ELSE "Black",
          piece |-> IF square \in board.pawns THEN "Pawn"
                    ELSE IF square \in board.knights THEN "Knight"
                    ELSE IF square \in board.bishops THEN "Bishop"
                    ELSE IF square \in board.rooks THEN "Rook"
                    ELSE IF square \in board.queens THEN "Queen"
                    ELSE "King"]

get_ray_attacks(board, square, direction) ==
    LET toggled(attacks, beyond) == (attacks \ beyond) \cup (beyond \ attacks)
        blocked(attacks, blocker) ==
            IF blocker # {}
            THEN toggled(attacks,
                         ray_mask_table[IF direction_negative(direction)
                                        THEN bit_scan_reverse(blocker)
                                        ELSE bit_scan_forward(blocker)][direction])
            ELSE attacks
        ray(attacks) == blocked(attacks, attacks \cap occupied(board))
    IN  ray(ray_mask_table[square][direction])

diagonal_attacks(board, square) ==
    get_ray_attacks(board, square, "NorthEast") \cup
    get_ray_attacks(board, square, "SouthWest")

anti_diagonal_attacks(board, square) ==
    get_ray_attacks(board, square, "NorthWest") \cup
    get_ray_attacks(board, square, "SouthEast")

file_attacks(board, square) ==
    get_ray_attacks(board, square, "North") \cup
    get_ray_attacks(board, square, "South")

rank_attacks(board, square) ==
    get_ray_attacks(board, square, "East") \cup
    get_ray_attacks(board, square, "West")

rook_attacks(board, square) ==
    file_attacks(board, square) \cup rank_attacks(board, square)

bishop_attacks(board, square) ==
    diagonal_attacks(board, square) \cup anti_diagonal_attacks(board, square)

queen_attacks(board, square) ==
    rook_attacks(board, square) \cup bishop_attacks(board, square)

\* the pawn test uses the black pawn attack mask for either attacking side
is_attacked(board, square, by_side) ==
    LET bitboard == {square}
        attack_pieces == get_pieces_by_side(board, by_side)
    IN  \/ (black_pawn_any_attacks_mask(bitboard)
              \cap attack_pieces \cap board.pawns) # {}
        \/ (knight_attacks_table[square]
              \cap attack_pieces \cap board.knights) # {}
        \/ (king_attacks_table[square]
              \cap attack_pieces \cap board.kings) # {}
        \/ (bishop_attacks(board, square)
              \cap attack_pieces \cap (board.bishops \cup board.queens)) # {}
        \/ (rook_attacks(board, square)
              \cap attack_pieces \cap (board.rooks \cup board.queens)) # {}

\* ------------------------------------------------------------------------
\* Zobrist keys (zobrist.rs).  A key is written as the pair <<a, b>> that
\* stands for the u32 value a * 100000 + b.
\* ------------------------------------------------------------------------
ZOBRIST_KEYS == <<
    <<19420, 3009>>, <<9746, 90339>>, <<40764, 84053>>, <<12143, 91555>>, <<11680, 39459>>, <<39548, 80283>>,
    <<18872, 61166>>, <<28053, 40334>>, <<10391, 71167>>, <<470, 40222>>, <<1263, 85303>>, <<38916, 57653>>,
    <<9261, 54016>>, <<19418, 42831>>, <<25679, 47926>>, <<30487, 22653>>, <<4369, 37843>>, <<10710, 69909>>,
    <<14326, 7408>>, <<29921, 20632>>, <<26935, 51823>>, <<39996, 48306>>, <<13829, 17800>>, <<34855, 86812>>,
    <<6911, 43062>>, <<22471, 28374>>, <<30012, 67194>>, <<37174, 51471>>, <<28225, 14256>>, <<2241, 23184>>,
    <<12654, 8935>>, <<23426, 76329>>, <<42105, 99198>>, <<3807, 16068>>, <<18711, 30916>>, <<909, 61246>>,
    <<955, 88603>>, <<13408, 12404>>, <<31574, 21886>>, <<30338, 79438>>, <<29410, 32298>>, <<42819, 84084>>,
    <<7910, 69444>>, <<32299, 2840>>, <<10850, 56429>>, <<10362, 99096>>, <<20417, 37730>>, <<4773, 91279>>,
    <<35734, 85951>>, <<24280, 63086>>, <<40063, 80305>>, <<4982, 81196>>, <<26505, 59380>>, <<6988, 23106>>,
    <<25268, 59270>>, <<9050, 28922>>, <<38284, 54112>>, <<40621, 14938>>, <<17316, 13784>>, <<7185, 98495>>,
    <<24690, 44938>>, <<8268, 53482>>, <<34358, 91183>>, <<12065, 61059>>, <<40017, 85945>>, <<15806, 67040>>,
    <<8411, 18202>>, <<31180, 64198>>, <<30072, 39732>>, <<26975, 88702>>, <<32417, 17207>>, <<28969, 76768>>,
    <<26254, 46214>>, <<11395, 34747>>, <<16343, 9592>>, <<36450, 57414>>, <<8420, 57323>>, <<2205, 39104>>,
    <<16821, 48287>>, <<18261, 94925>>, <<12915, 19953>>, <<5797, 47182>>, <<19536, 10848>>, <<793, 36613>>,
    <<22992, 8228>>, <<29607, 19262>>, <<13872, 55659>>, <<32559, 74975>>, <<36112, 57744>>, <<17597, 2130>>,
    <<7000, 15659>>, <<14376, 76123>>, <<14097, 57097>>, <<3408, 29619>>, <<15924, 82521>>, <<10137, 16944>>,
    <<35516, 52262>>, <<22736, 79108>>, <<9247, 94576>>, <<27723, 873>>, <<25883, 36972>>, <<9094, 68361>>,
    <<16203, 74906>>, <<6267, 56526>>, <<9100, 8001>>, <<31247, 34859>>, <<6638, 41270>>, <<22931, 94911>>,
    <<5389, 44660>>, <<26118, 45740>>, <<40996, 8980>>, <<17118, 15261>>, <<42947, 50720>>, <<41284, 10476>>,
    <<24036, 39072>>, <<28155, 12103>>, <<20244, 58660>>, <<9400, 37285>>, <<40237, 57283>>, <<2002, 40863>>,
    <<28314, 17015>>, <<22647, 83481>>, <<35052, 16783>>, <<33808, 10231>>, <<21344, 55769>>, <<18785, 96326>>,
    <<11268, 34320>>, <<7069, 40952>>, <<34212, 58597>>, <<32498, 23935>>, <<34960, 38749>>, <<14584, 33332>>,
    <<13817, 46117>>, <<13912, 4547>>, <<41294, 95670>>, <<7015, 55344>>, <<36780, 75934>>, <<39195, 13721>>,
    <<10181, 52000>>, <<33585, 21865>>, <<10984, 53521>>, <<37661, 75686>>, <<37885, 14923>>, <<37043, 30180>>,
    <<18678, 46352>>, <<35032, 22807>>, <<36664, 94920>>, <<13698, 85308>>, <<32082, 14799>>, <<8239, 48767>>,
    <<36469, 92868>>, <<11115, 44253>>, <<4045, 35103>>, <<24756, 72433>>, <<40677, 31061>>, <<34714, 7125>>,
    <<35231, 90831>>, <<15415, 9609>>, <<14464, 28187>>, <<22705, 8344>>, <<38532, 2269>>, <<29645, 48409>>,
    <<37692, 88709>>, <<11829, 45927>>, <<3280, 12867>>, <<21288, 73257>>, <<5003, 29508>>, <<23929, 18934>>,
    <<11109, 21668>>, <<36260, 77748>>, <<30348, 82286>>, <<3714, 30535>>, <<42478, 85265>>, <<34314, 20837>>,
    <<16670, 51082>>, <<7354, 73848>>, <<33042, 69238>>, <<34360, 92049>>, <<36955, 3070>>, <<1636, 49931>>,
    <<24580, 74100>>, <<19633, 38182>>, <<22805, 66306>>, <<34468, 8973>>, <<7205, 44228>>, <<1112, 85085>>,
    <<23235, 70567>>, <<18530, 11421>>, <<1400, 37107>>, <<17557, 86149>>, <<18359, 30235>>, <<10640, 17356>>,
    <<41292, 16220>>, <<1964, 25906>>, <<19280, 98796>>, <<41029, 97964>>, <<24287, 56682>>, <<16212, 73485>>,
    <<30510, 87958>>, <<33456, 60902>>, <<18358, 61449>>, <<36119, 95615>>, <<41227, 99497>>, <<39978, 27263>>,
    <<33500, 49766>>, <<40499, 93909>>, <<32232, 82616>>, <<20074, 84320>>, <<9359, 83269>>, <<37893, 39574>>,
    <<29571, 45821>>, <<30559, 65848>>, <<28062, 57257>>, <<4328, 80052>>, <<11269, 84834>>, <<16705, 7736>>,
    <<40551, 13409>>, <<2261, 81967>>, <<15651, 45549>>, <<18560, 69178>>, <<38472, 11894>>, <<25474, 31162>>,
    <<29824, 82594>>, <<23035, 95301>>, <<18719, 16337>>, <<5967, 40066>>, <<36216, 47208>>, <<4484, 45975>>,
    <<14114, 78801>>, <<36182, 96476>>, <<6446, 32403>>, <<39554, 35379>>, <<15647, 26818>>, <<13830, 28689>>,
    <<14353, 79756>>, <<14121, 8725>>, <<36565, 30592>>, <<23765, 94121>>, <<1796, 75249>>, <<32137, 3592>>,
    <<42837, 69767>>, <<26567, 88170>>, <<6996, 95232>>, <<15105, 79245>>, <<5583, 99257>>, <<310, 64803>>,
    <<38667, 9247>>, <<34586, 1848>>, <<16572, 72861>>, <<14635, 10220>>, <<18444, 99476>>, <<17723, 13200>>,
    <<15656, 39145>>, <<39961, 15400>>, <<41915, 19400>>, <<7946, 81510>>, <<37404, 33351>>, <<20261, 79775>>,
    <<42282, 18200>>, <<16458, 88103>>, <<8763, 16018>>, <<13972, 3474>>, <<2981, 29039>>, <<6813, 29024>>,
    <<262, 10277>>, <<17284, 71080>>, <<36883, 81217>>, <<8757, 50524>>, <<42057, 52235>>, <<21736, 92201>>,
    <<38385, 2371>>, <<33119, 884>>, <<7644, 62908>>, <<1275, 20456>>, <<23421, 86665>>, <<22400, 119>>,
    <<39101, 91122>>, <<25295, 89702>>, <<38807, 91030>>, <<2063, 54022>>, <<24385, 91974>>, <<25845, 8167>>,
    <<35834, 30374>>, <<4604, 40746>>, <<26559, 57564>>, <<23690, 33091>>, <<28563, 40915>>, <<16930, 76043>>,
    <<23211, 52957>>, <<8528, 8412>>, <<12067, 83759>>, <<4804, 76928>>, <<39655, 90587>>, <<32261, 56208>>,
    <<211, 18103>>, <<41997, 6749>>, <<27645, 30386>>, <<27838, 83919>>, <<12951, 95544>>, <<27297, 92514>>,
    <<3858, 66972>>, <<9647, 68917>>, <<2305, 50668>>, <<42698, 27214>>, <<19815, 81110>>, <<9711, 17672>>,
    <<13465, 11909>>, <<24741, 39887>>, <<31165, 72519>>, <<5703, 24132>>, <<22286, 60402>>, <<31130, 57260>>,
    <<16956, 31712>>, <<18867, 89841>>, <<10007, 72865>>, <<483, 67360>>, <<38798, 12407>>, <<42594, 63310>>,
    <<35776, 25728>>, <<186, 13629>>, <<9715, 17321>>, <<42741, 74783>>, <<40528, 95738>>, <<24314, 56657>>,
    <<22035, 53140>>, <<33451, 69402>>, <<38949, 97949>>, <<8615, 72100>>, <<16856, 90454>>, <<10243, 68897>>,
    <<2980, 23905>>, <<27414, 6378>>, <<35633, 39263>>, <<11964, 81911>>, <<35953, 2333>>, <<36032, 97915>>,
    <<17685, 83838>>, <<27831, 81229>>, <<32503, 2730>>, <<12498, 6972>>, <<23278, 32517>>, <<8930, 30764>>,
    <<2645, 25874>>, <<15691, 52555>>, <<30474, 45695>>, <<30790, 46245>>, <<20527, 59526>>, <<38338, 28976>>,
    <<23749, 52697>>, <<40706, 78605>>, <<2385, 34990>>, <<2642, 98862>>, <<11960, 61521>>, <<7463, 56752>>,
    <<12409, 77025>>, <<3686, 18913>>, <<30271, 85624>>, <<4268, 15372>>, <<8750, 91388>>, <<37630, 23820>>,
    <<41074, 52793>>, <<6109, 50779>>, <<34394, 5864>>, <<27286, 80793>>, <<26680, 21364>>, <<20930, 30521>>,
    <<4863, 34561>>, <<40159, 63872>>, <<11130, 87140>>, <<28014, 26319>>, <<36327, 91464>>, <<42714, 41918>>,
    <<40673, 85218>>, <<27877, 46517>>, <<4451, 75918>>, <<2323, 80386>>, <<41348, 31302>>, <<20808, 49244>>,
    <<17543, 86390>>, <<1124, 95709>>, <<12598, 66809>>, <<8741, 89000>>, <<11350, 76107>>, <<15396, 91454>>,
    <<3545, 61437>>, <<40676, 52475>>, <<40578, 13544>>, <<39225, 35046>>, <<12631, 84767>>, <<10324, 12787>>,
    <<5407, 24737>>, <<15599, 33735>>, <<42516, 27816>>, <<19605, 31324>>, <<34666, 54378>>, <<30933, 48231>>,
    <<30428, 57810>>, <<4226, 43440>>, <<4246, 5223>>, <<2967, 44337>>, <<25570, 11000>>, <<20089, 97822>>,
    <<6931, 46483>>, <<34864, 37519>>, <<25188, 37136>>, <<9518, 87810>>, <<18208, 64461>>, <<9394, 79979>>,
    <<20975, 92300>>, <<9578, 82415>>, <<4882, 96993>>, <<20558, 70163>>, <<9637, 70112>>, <<13524, 26313>>,
    <<39265, 74426>>, <<25110, 48387>>, <<17069, 98055>>, <<33202, 97634>>, <<39430, 62684>>, <<15259, 1377>>,
    <<29893, 34409>>, <<22643, 93140>>, <<25157, 18407>>, <<12717, 56371>>, <<1381, 43119>>, <<516, 43617>>,
    <<18548, 18891>>, <<41304, 90374>>, <<9230, 22458>>, <<41688, 31388>>, <<32005, 52090>>, <<30966, 46563>>,
    <<34953, 35162>>, <<28748, 68322>>, <<16909, 72388>>, <<31276, 6884>>, <<1248, 58764>>, <<35813, 31210>>,
    <<19967, 36078>>, <<30384, 22235>>, <<6204, 43822>>, <<41959, 91855>>, <<16739, 49374>>, <<32089, 66973>>,
    <<36669, 98156>>, <<40344, 92726>>, <<39074, 34110>>, <<39647, 25734>>, <<382, 84250>>, <<16675, 59137>>,
    <<15877, 44272>>, <<24185, 42249>>, <<17739, 25495>>, <<29667, 83129>>, <<6693, 51410>>, <<8245, 18505>>,
    <<12026, 1843>>, <<11888, 4626>>, <<39649, 67782>>, <<20799, 13192>>, <<7061, 94718>>, <<20951, 69054>>,
    <<37769, 32048>>, <<18649, 3972>>, <<26226, 48878>>, <<15818, 57207>>, <<1753, 3527>>, <<30781, 9944>>,
    <<42236, 84060>>, <<18575, 80227>>, <<6764, 13964>>, <<7792, 69213>>, <<18039, 47081>>, <<28416, 17176>>,
    <<18498, 28533>>, <<34475, 76334>>, <<6998, 36568>>, <<41452, 16427>>, <<6594, 55824>>, <<29590, 68012>>,
    <<8304, 44492>>, <<38077, 80294>>, <<18518, 32815>>, <<28044, 73686>>, <<18426, 11746>>, <<746, 94231>>,
    <<4144, 38346>>, <<16670, 62717>>, <<12207, 10955>>, <<2033, 14967>>, <<2387, 9240>>, <<21086, 40105>>,
    <<24491, 96068>>, <<41171, 8>>, <<1162, 43362>>, <<16687, 2419>>, <<20475, 22721>>, <<40018, 8889>>,
    <<19624, 82506>>, <<38360, 78388>>, <<32, 1961>>, <<28989, 40988>>, <<15804, 75809>>, <<20743, 91640>>,
    <<33718, 28045>>, <<41117, 47256>>, <<22485, 79464>>, <<26393, 4252>>, <<39057, 67865>>, <<11197, 27231>>,
    <<4812, 58537>>, <<13698, 37604>>, <<3600, 55209>>, <<3215, 48474>>, <<10370, 35024>>, <<16863, 81412>>,
    <<15847, 88736>>, <<13114, 65522>>, <<19333, 21931>>, <<42739, 66927>>, <<40099, 97229>>, <<27544, 66879>>,
    <<1976, 42927>>, <<25997, 10720>>, <<37040, 78180>>, <<22401, 75591>>, <<7977, 40404>>, <<5133, 18851>>,
    <<14365, 82145>>, <<39207, 79415>>, <<14651, 93651>>, <<39437, 25068>>, <<29206, 55887>>, <<31521, 99518>>,
    <<14212, 16623>>, <<31393, 87502>>, <<5938, 65014>>, <<14499, 89416>>, <<36084, 66360>>, <<36431, 36674>>,
    <<12094, 38496>>, <<3047, 50066>>, <<6744, 73735>>, <<37224, 75182>>, <<12667, 67728>>, <<2935, 97516>>,
    <<28512, 96515>>, <<38223, 49589>>, <<11684, 96863>>, <<17512, 83287>>, <<26954, 90865>>, <<34391, 11639>>,
    <<8259, 37231>>, <<4972, 43397>>, <<25534, 50708>>, <<16932, 94832>>, <<17387, 46412>>, <<12335, 21988>>,
    <<1878, 58091>>, <<23222, 36572>>, <<2448, 90436>>, <<25221, 38713>>, <<462, 44302>>, <<42463, 13537>>,
    <<6435, 30656>>, <<38971, 74335>>, <<17692, 52821>>, <<3169, 88483>>, <<31919, 88266>>, <<1941, 68216>>,
    <<27163, 20412>>, <<13554, 18726>>, <<26320, 70685>>, <<3258, 65593>>, <<2235, 66820>>, <<2960, 68894>>,
    <<42465, 67234>>, <<27540, 84406>>, <<19595, 6124>>, <<15864, 22739>>, <<6158, 56435>>, <<28169, 90323>>,
    <<29640, 89140>>, <<41268, 85904>>, <<33236, 39088>>, <<4164, 9715>>, <<27377, 77269>>, <<540, 49914>>,
    <<29024, 55953>>, <<40544, 98935>>, <<37805, 88458>>, <<41326, 43091>>, <<6383, 27422>>, <<13385, 62304>>,
    <<17801, 1208>>, <<4157, 17705>>, <<27813, 51661>>, <<10330, 42505>>, <<1634, 53406>>, <<7102, 78388>>,
    <<4542, 11306>>, <<2032, 94494>>, <<7098, 88736>>, <<26393, 67641>>, <<310, 88929>>, <<23242, 74893>>,
    <<19441, 69817>>, <<8209, 79112>>, <<25101, 35006>>, <<14131, 89662>>, <<7769, 60456>>, <<16406, 43882>>,
    <<13602, 50075>>, <<5969, 61585>>, <<18159, 25839>>, <<39322, 11726>>, <<20375, 89618>>, <<28688, 93771>>,
    <<23248, 72756>>, <<24497, 14202>>, <<8217, 23198>>, <<38816, 74365>>, <<35761, 42534>>, <<41002, 48624>>,
    <<40353, 31610>>, <<13005, 71397>>, <<12074, 13101>>, <<231, 83332>>, <<22784, 57645>>, <<11014, 72926>>,
    <<427, 2072>>, <<2762, 6558>>, <<20533, 90405>>, <<26585, 79215>>, <<21109, 23824>>, <<11311, 64469>>,
    <<37285, 11475>>, <<39339, 68689>>, <<19494, 32070>>, <<17715, 58907>>, <<23611, 3726>>, <<11715, 19189>>,
    <<1666, 91159>>, <<7036, 42330>>, <<20319, 35954>>, <<13691, 97138>>, <<8916, 91754>>, <<36575, 24750>>,
    <<34050, 22555>>, <<7804, 97794>>, <<12471, 11389>>, <<34710, 97204>>, <<4460, 1775>>, <<12292, 94504>>,
    <<357, 59868>>, <<12190, 36607>>, <<1829, 94319>>, <<8003, 83469>>, <<8123, 45509>>, <<20296, 59800>>,
    <<1218, 81032>>, <<39213, 82503>>, <<42196, 53514>>, <<8723, 8992>>, <<15023, 73345>>, <<23206, 19898>>,
    <<8909, 86853>>, <<13746, 29499>>, <<27966, 98966>>, <<36694, 86531>>, <<40768, 14233>>, <<24074, 44249>>,
    <<24347, 25747>>, <<27049, 58396>>, <<39958, 79091>>, <<34102, 82841>>, <<8308, 17612>>, <<31515, 15851>>,
    <<21148, 97412>>, <<3203, 89551>>, <<38965, 2859>>, <<2409, 59410>>, <<42579, 93663>>, <<4614, 98033>>,
    <<20623, 30353>>, <<23125, 11768>>, <<2108, 65537>>, <<15743, 86905>>, <<33913, 67871>>, <<13880, 38878>>,
    <<10921, 85153>>, <<38798, 15746>>, <<6955, 97819>>, <<41089, 13177>>, <<2044, 79956>>, <<2069, 89775>>,
    <<12638, 88044>>, <<20898, 50496>>, <<20365, 71933>>, <<4052, 80886>>, <<22126, 97960>>, <<4862, 69613>>,
    <<253, 31471>>, <<3922, 44806>>, <<22917, 24873>>, <<28934, 88033>>, <<19014, 61854>>, <<40328, 30261>>,
    <<30716, 51265>>, <<8371, 15266>>, <<5649, 67797>>, <<34008, 51398>>, <<10022, 13739>>, <<19466, 98567>>,
    <<2000, 90072>>, <<8661, 30545>>, <<36179, 93841>>, <<16542, 81075>>, <<22665, 82212>>, <<38636, 330>>,
    <<14364, 66581>>, <<14954, 47007>>, <<26787, 35259>>, <<22179, 47017>>, <<12875, 79330>>, <<78, 11934>>,
    <<25296, 79000>>, <<12156, 89912>>, <<11120, 93464>>, <<32732, 65716>>, <<9506, 4604>>, <<2115, 17989>>,
    <<21367, 94007>>, <<4807, 32146>>, <<23607, 83139>>, <<33914, 38700>>, <<37521, 26210>>, <<626, 17669>>,
    <<13992, 82902>>, <<29231, 60396>>, <<22325, 89370>>, <<12869, 16489>>, <<27345, 76221>>, <<5784, 92946>>,
    <<25218, 2165>>, <<33635, 56836>>, <<30690, 19429>>, <<35601, 13981>>, <<40227, 61278>>, <<33216, 78037>>,
    <<4280, 95775>>, <<24618, 82872>>, <<24810, 17608>>, <<36906, 1128>>, <<15617, 90653>>, <<19027, 65713>>,
    <<1907, 11782>>, <<949, 39157>>, <<474, 47519>>, <<41135, 37505>>, <<35424, 1824>>, <<35789, 50769>>,
    <<41875, 80>>, <<5640, 62853>>, <<28833, 4400>>, <<14365, 47877>>, <<269, 54838>>, <<20890, 32226>>,
    <<28028, 3278>>, <<14309, 41261>>, <<21705, 95482>>, <<22473, 57720>>, <<15538, 4480>>, <<41268, 14597>>,
    <<2986, 93307>>, <<8417, 25043>>, <<38057, 93409>>, <<15282, 32892>>, <<6100, 15325>>, <<1822, 81659>>,
    <<10458, 36970>>
>>

WHITE_TURN_HASH_KEY_INDEX == 780

\* the 32 bits of a * 100000 + b, computed in two 16-bit halves
KeyBits(pair) ==
    LET a == pair[1]
        t == a * 34464 + pair[2]
        lo == t % 65536
        hi == (a + t \div 65536) % 65536
    IN  {i \in 0..15 : (lo \div 2^i) % 2 = 1} \cup
        {16 + i : i \in {j \in 0..15 : (hi \div 2^j) % 2 = 1}}

ZobristKeyBits == [i \in 0..780 |-> KeyBits(ZOBRIST_KEYS[i + 1])]

\* u32 ^ u32
Xor(x, y) == (x \ y) \cup (y \ x)

piece_index(piece) ==
    CASE piece = "Pawn" -> 0
      [] piece = "Knight" -> 1
      [] piece = "Bishop" -> 2
      [] piece = "Rook" -> 3
      [] piece = "Queen" -> 4
      [] piece = "King" -> 5

get_piece_hash_key_index(side, piece, square) ==
    (IF side = "White" THEN 0 ELSE 384) + 64 * piece_index(piece) + square

\* an en passant index that begins one slot early
get_en_passant_hash_key_index_from_767(file) == 767 + file

get_en_passant_hash_key_index(file) == 768 + file

get_queen_castling_right_hash_key_index(side) ==
    IF side = "White" THEN 776 ELSE 777

get_king_castling_right_hash_key_index(side) ==
    IF side = "White" THEN 778 ELSE 779

\* ZobristHash of game.rs.  A hash is only ever zero with keys XORed into it,
\* and XOR is associative, commutative and self-inverse, so a hash is kept
\* as the set of the indices of the keys XORed into it an odd number of
\* times; ZobristHash_value is the u32 it stands for.
zero == {}

flip_key(zhash, index) == Xor(zhash, {index})

RECURSIVE ZobristHash_value(_)
ZobristHash_value(zhash) ==
    IF zhash = {} THEN {}
    ELSE LET index == Min(zhash)
         IN  Xor(ZobristKeyBits[index], ZobristHash_value(zhash \ {index}))

flip_piece_position(zhash, side, piece, square) ==
    flip_key(zhash, get_piece_hash_key_index(side, piece, square))

flip_en_passant_file(zhash, file) ==
    flip_key(zhash, get_en_passant_hash_key_index(file))

flip_queen_castling_right(zhash, side) ==
    flip_key(zhash, get_queen_castling_right_hash_key_index(side))

flip_king_castling_right(zhash, side) ==
    flip_key(zhash, get_king_castling_right_hash_key_index(side))

flip_next_turn(zhash) ==
    flip_key(zhash, WHITE_TURN_HASH_KEY_INDEX)


\* ------------------------------------------------------------------------
\* State : the u16 flag word of a Game, as the set of its set bits (game.rs)
\* ------------------------------------------------------------------------
WHITES_TURN_INDEX == 12

bit(state, index) == index \in state

set_bit(state, index, to) ==
    IF to THEN state \cup {index} ELSE state \ {index}

queen_side_castling_right_index(side) == IF side = "White" THEN 8 ELSE 10

king_side_castling_right_index(side) == IF side = "White" THEN 9 ELSE 11

en_passant_index(file) == file

queen_side_castling_right(state, side) ==
    bit(state, queen_side_castling_right_index(side))

set_queen_side_castling_right(state, side, value) ==
    set_bit(state, queen_side_castling_right_index(side), value)

king_side_castling_right(state, side) ==
    bit(state, king_side_castling_right_index(side))

set_king_side_castling_right(state, side, value) ==
    set_bit(state, king_side_castling_right_index(side), value)

\* the loop of en_passant_open_files : mask is the low byte, zcnt its lowest
\* set bit, and the value pushed is the running sum next of the zcnt's
RECURSIVE en_passant_loop(_, _, _)
en_passant_loop(mask, next, files) ==
    IF mask = {} THEN files
    ELSE LET zcnt == Min(mask)
         IN  en_passant_loop(mask \ {zcnt}, next + zcnt,
                             Append(files, next + zcnt))

en_passant_values(state) == en_passant_loop(state \cap (0..7), 0, <<>>)

\* File::try_from(next).unwrap() aborts on a value that is no file
en_passant_open_files_panics(state) ==
    \E i \in DOMAIN en_passant_values(state) : en_passant_values(state)[i] > 7

en_passant_open_files(state) == en_passant_values(state)

reset_en_passant_open_files(state) == state \cap (8..15)

en_passant_open(state, file) == bit(state, en_passant_index(file))

set_en_passant_open(state, file, value) ==
    set_bit(state, en_passant_index(file), value)

next_turn_side(state) ==
    IF bit(state, WHITES_TURN_INDEX) THEN "White" ELSE "Black"

\* a setter that leaves the side to move as it is
keep_next_turn_side(state, side) == state

set_next_turn_side(state, side) ==
    set_bit(state, WHITES_TURN_INDEX, side = "White")

RECURSIVE flip_en_passant_files(_, _)
flip_en_passant_files(zhash, files) ==
    IF files = <<>> THEN zhash
    ELSE flip_en_passant_file(flip_en_passant_files(zhash, Tail(files)),
                              Head(files))

\* impl Into<ZobristHash> for State : the queen side right flips the king
\* side key, as the king side right does
StateZobrist(state) ==
    LET castling(zhash, side) ==
            LET z1 == IF king_side_castling_right(state, side)
                      THEN flip_king_castling_right(zhash, side) ELSE zhash
            IN  IF queen_side_castling_right(state, side)
                THEN flip_king_castling_right(z1, side) ELSE z1
        z2 == castling(castling(zero, "White"), "Black")
        z3 == flip_en_passant_files(z2, en_passant_open_files(state))
    IN  IF next_turn_side(state) = "Black" THEN flip_next_turn(z3) ELSE z3

\* ------------------------------------------------------------------------
\* The Board queries that game.rs calls.  piece_at and pieces_by_side are
\* get_piece_at and get_pieces_by_side of board/mod.rs under the names
\* game.rs uses; the others follow the component design of the Board and of
\* the move generator.
\* ------------------------------------------------------------------------
piece_at(board, square) == get_piece_at(board, square)

pieces_by_side(board, side) == get_pieces_by_side(board, side)

is_pawn(board, square) ==
    piece_at(board, square) # NoPiece /\ piece_at(board, square).piece = "Pawn"

EmptyBoard ==
    [black |-> {}, white |-> {}, kings |-> {}, queens |-> {}, rooks |-> {},
     bishops |-> {}, knights |-> {}, pawns |-> {}]

has_both_kings(board) ==
    /\ board.kings \cap board.white # {}
    /\ board.kings \cap board.black # {}

\* whether a piece of by_side attacks the square, looking outward from it;
\* the pawn mask is the mirrored one
attacked_by(board, square, by_side) ==
    LET attack_pieces == pieces_by_side(board, by_side)
        pawn_mask == IF by_side = "White"
                     THEN black_pawn_any_attacks_mask({square})
                     ELSE white_pawn_any_attacks_mask({square})
    IN  \/ (pawn_mask \cap attack_pieces \cap board.pawns) # {}
        \/ (knight_attacks_table[square]
              \cap attack_pieces \cap board.knights) # {}
        \/ (king_attacks_table[square]
              \cap attack_pieces \cap board.kings) # {}
        \/ (bishop_attacks(board, square)
              \cap attack_pieces \cap (board.bishops \cup board.queens)) # {}
        \/ (rook_attacks(board, square)
              \cap attack_pieces \cap (board.rooks \cup board.queens)) # {}

king_squares(board, side) == pieces_by_side(board, side) \cap board.kings

\* the king square is taken by a bit scan, which needs a non-empty set
is_king_attacked_panics(board, side) == king_squares(board, side) = {}

is_king_attacked(board, side) ==
    attacked_by(board, bit_scan_forward(king_squares(board, side)),
                flip(side))

castling_targets(board, from, side, king_side_right, queen_side_right) ==
    LET home == IF side = "White" THEN E1 ELSE E8
        empty == FULL \ occupied(board)
        targets(safe) ==
            (IF /\ king_side_right
                /\ {home + 1, home + 2} \subseteq empty
                /\ {home, home + 1, home + 2} \subseteq safe
             THEN {home + 2} ELSE {}) \cup
            (IF /\ queen_side_right
                /\ {home - 1, home - 2, home - 3} \subseteq empty
                /\ {home, home - 1, home - 2} \subseteq safe
             THEN {home - 2} ELSE {})
    IN  IF from = home
        THEN targets({s \in (home - 2)..(home + 2) :
                        ~attacked_by(board, s, flip(side))})
        ELSE {}

pawn_targets(board, from, side, en_passant_open_files_arg) ==
    LET pawn == {from}
        empty == FULL \ occupied(board)
        opponent_pieces == pieces_by_side(board, flip(side))
        files == {en_passant_open_files_arg[i] :
                    i \in DOMAIN en_passant_open_files_arg}
        single == IF side = "White" THEN north_one(pawn) \cap empty
                  ELSE south_one(pawn) \cap empty
        double == IF side = "White"
                  THEN north_one(single \cap RANK_3) \cap empty
                  ELSE south_one(single \cap RANK_6) \cap empty
        attacks == IF side = "White" THEN white_pawn_any_attacks_mask(pawn)
                   ELSE black_pawn_any_attacks_mask(pawn)
        passant == {s \in (IF side = "White" THEN RANK_6 ELSE RANK_3) :
                      FileOf(s) \in files}
    IN  single \cup double \cup (attacks \cap (opponent_pieces \cup passant))

pseudo_legal_moves_from(board, from, king_side_right, queen_side_right, files) ==
    IF piece_at(board, from) = NoPiece THEN EMPTY
    ELSE LET side == piece_at(board, from).side
             piece == piece_at(board, from).piece
             own == pieces_by_side(board, side)
         IN  CASE piece = "Knight" -> knight_attacks_table[from] \ own
               [] piece = "King" ->
                    (king_attacks_table[from] \ own) \cup
                    castling_targets(board, from, side,
                                     king_side_right, queen_side_right)
               [] piece = "Bishop" -> bishop_attacks(board, from) \ own
               [] piece = "Rook" -> rook_attacks(board, from) \ own
               [] piece = "Queen" -> queen_attacks(board, from) \ own
               [] piece = "Pawn" ->
                    pawn_targets(board, from, side, files)

\* Into<ZobristHash> for Board : the key of every piece on its square,
\* XORed into zero; the keys of two squares have different indices
BoardZobrist(board) ==
    {get_piece_hash_key_index(piece_at(board, sq).side,
                              piece_at(board, sq).piece, sq) :
        sq \in occupied(board)}


\* ------------------------------------------------------------------------
\* Game (game.rs).  A Mov is [from, to, promotion], promotion a piece or
\* None.  A result is tagged Ok, InvalidArgument, IllegalMove or Panic.
\* ------------------------------------------------------------------------
PROMO_PIECES == <<"Knight", "Queen", "Rook", "Bishop">>

Mov(from, to, promotion) ==
    [from |-> from, to |-> to, promotion |-> promotion]

Err(kind) == [tag |-> kind]

Game_pseudo_legal_moves_from(game, from) ==
    LET side == next_turn_side(game.state)
    IN  pseudo_legal_moves_from(game.board, from,
                                king_side_castling_right(game.state, side),
                                queen_side_castling_right(game.state, side),
                                en_passant_open_files(game.state))

\* "Move our piece" : the four statements that end every branch
relocate(acc, side, piece, new_piece, from, to) ==
    [acc EXCEPT
       !.board = set_piece(clear_piece(@, from), side, new_piece, to),
       !.zobrist = flip_piece_position(
                       flip_piece_position(@, side, piece, from),
                       side, new_piece, to)]

\* "Capture opponents piece" on a square that holds one
capture(acc, opponent_side, square) ==
    [acc EXCEPT
       !.board = clear_piece(@, square),
       !.zobrist = flip_piece_position(@, opponent_side,
                                       piece_at(acc.board, square).piece,
                                       square),
       !.is_capture = TRUE]

move_pawn(acc, mov, side) ==
    LET from == mov.from
        to == mov.to
        opponent_side == flip(side)
        opponent_pieces == pieces_by_side(acc.board, opponent_side)
        a0 == [acc EXCEPT !.halfmove_clock = 0]
        rank_from == RankOf(from)
        rank_to == RankOf(to)
    IN  IF <<rank_from, rank_to>> \in {<<1, 3>>, <<6, 4>>}
        THEN LET file == FileOf(to)
                 a1 == [a0 EXCEPT
                          !.state = set_en_passant_open(@, file, TRUE),
                          !.zobrist = flip_en_passant_file(@, file)]
             IN  relocate(a1, side, "Pawn", "Pawn", from, to)
        ELSE LET en_passant == to \notin opponent_pieces
                 behind == IF side = "White" THEN south_one({to})
                           ELSE north_one({to})
                 is_cap == FileOf(from) # FileOf(to)
                 cap_panics ==
                     /\ is_cap
                     /\ \/ en_passant /\ behind = {}
                        \/ piece_at(a0.board,
                                    IF en_passant THEN Min(behind) ELSE to)
                             = NoPiece
                 captured_square == IF en_passant THEN Min(behind) ELSE to
                 a1 == IF is_cap /\ ~cap_panics
                       THEN capture(a0, opponent_side, captured_square)
                       ELSE a0
                 needs_promo == rank_to \in {7, 0}
                 new_piece == IF needs_promo THEN mov.promotion ELSE "Pawn"
             IN  IF cap_panics THEN Err("Panic")
                 ELSE IF needs_promo /\ mov.promotion = None
                 THEN Err("InvalidArgument")
                 ELSE relocate(a1, side, "Pawn", new_piece, from, to)

move_piece(game, acc, mov, side, piece) ==
    LET to == mov.to
        opponent_side == flip(side)
        opponent_pieces == pieces_by_side(game.board, opponent_side)
        a1 == IF to \in opponent_pieces
              THEN [capture(acc, opponent_side, to)
                      EXCEPT !.halfmove_clock = 0]
              ELSE acc
    IN  relocate(a1, side, piece, piece, mov.from, to)

move_king(game, acc, mov, side) ==
    LET from == mov.from
        to == mov.to
        opponent_side == flip(side)
        opponent_pieces == pieces_by_side(game.board, opponent_side)
        a1 == IF king_side_castling_right(game.state, side)
              THEN [acc EXCEPT
                      !.state = set_king_side_castling_right(@, side, FALSE),
                      !.zobrist = flip_king_castling_right(@, side)]
              ELSE acc
        a2 == IF queen_side_castling_right(game.state, side)
              THEN [a1 EXCEPT
                      !.state = set_queen_side_castling_right(@, side, FALSE),
                      !.zobrist = flip_queen_castling_right(@, side)]
              ELSE a1
        king_square == IF side = "White" THEN E1 ELSE E8
        cstl_ks_k_square == IF side = "White" THEN G1 ELSE G8
        cstl_ks_r_from_square == IF side = "White" THEN H1 ELSE H8
        cstl_ks_r_to_square == IF side = "White" THEN F1 ELSE F8
        cstl_qs_k_square == IF side = "White" THEN C1 ELSE C8
        cstl_qs_r_from_square == IF side = "White" THEN A1 ELSE A8
        cstl_qs_r_to_square == IF side = "White" THEN D1 ELSE D8
        castle_rook(a, r_from, r_to) ==
            [a EXCEPT
               !.board = set_piece(clear_piece(@, r_from), side, "Rook", r_to),
               !.zobrist = flip_piece_position(
                               flip_piece_position(@, side, "Rook", r_from),
                               side, "Rook", r_to)]
    IN  IF to \in opponent_pieces
        THEN relocate([capture(a2, opponent_side, to)
                         EXCEPT !.halfmove_clock = 0],
                      side, "King", "King", from, to)
        ELSE LET a3 == IF from = king_square /\ to = cstl_ks_k_square
                       THEN castle_rook(a2, cstl_ks_r_from_square,
                                      cstl_ks_r_to_square)
                       ELSE IF from = king_square /\ to = cstl_qs_k_square
                       THEN castle_rook(a2, cstl_qs_r_from_square,
                                      cstl_qs_r_to_square)
                       ELSE a2
             IN  relocate(a3, side, "King", "King", from, to)

\* a rook arm that moves and captures as the knight's arm does, and keeps
\* the castling rights
move_rook_keeping_rights(game, acc, mov, side) ==
    move_piece(game, acc, mov, side, "Rook")

move_rook(game, acc, mov, side) ==
    LET from == mov.from
        to == mov.to
        opponent_side == flip(side)
        opponent_pieces == pieces_by_side(game.board, opponent_side)
        a1 == IF to \in opponent_pieces
              THEN [capture(acc, opponent_side, to)
                      EXCEPT !.halfmove_clock = 0]
              ELSE acc
        king_side_origin == IF side = "White" THEN H1 ELSE H8
        queen_side_origin == IF side = "White" THEN A1 ELSE A8
        a2 == IF /\ from = king_side_origin
                 /\ king_side_castling_right(game.state, side)
              THEN [a1 EXCEPT
                      !.state = set_king_side_castling_right(@, side, FALSE),
                      !.zobrist = flip_king_castling_right(@, side)]
              ELSE IF /\ from = queen_side_origin
                      /\ queen_side_castling_right(game.state, side)
              THEN [a1 EXCEPT
                      !.state = set_queen_side_castling_right(@, side, FALSE),
                      !.zobrist = flip_queen_castling_right(@, side)]
              ELSE a1
    IN  relocate(a2, side, "Rook", "Rook", from, to)

\* a capture on a corner that leaves the rights of the opponent as they are
keep_captured_rook_right(acc, to, opponent_side) == acc

\* "Check if captured piece is rook with castling rights"
revoke_captured_rook_right(acc, to, opponent_side) ==
    LET op_qs_rook_origin == IF opponent_side = "White" THEN A1 ELSE A8
        op_ks_rook_origin == IF opponent_side = "White" THEN H1 ELSE H8
    IN  IF ~acc.is_capture THEN acc
        ELSE IF /\ to = op_qs_rook_origin
                /\ queen_side_castling_right(acc.state, opponent_side)
        THEN [acc EXCEPT
                !.state = set_queen_side_castling_right(@, opponent_side,
                                                        FALSE),
                !.zobrist = flip_queen_castling_right(@, opponent_side)]
        ELSE IF /\ to = op_ks_rook_origin
                /\ king_side_castling_right(acc.state, opponent_side)
        THEN [acc EXCEPT
                !.state = set_king_side_castling_right(@, opponent_side,
                                                       FALSE),
                !.zobrist = flip_king_castling_right(@, opponent_side)]
        ELSE acc

make_pseudo_legal_move(game, mov) ==
    IF piece_at(game.board, mov.from) = NoPiece THEN Err("InvalidArgument")
    ELSE IF piece_at(game.board, mov.from).side # next_turn_side(game.state)
    THEN Err("InvalidArgument")
    ELSE IF en_passant_open_files_panics(game.state) THEN Err("Panic")
    ELSE
    LET side == piece_at(game.board, mov.from).side
        piece == piece_at(game.board, mov.from).piece
        opponent_side == flip(side)
        acc == [tag |-> "Ok",
                board |-> game.board,
                state |-> set_next_turn_side(
                              reset_en_passant_open_files(game.state),
                              opponent_side),
                zobrist |-> flip_next_turn(
                                flip_en_passant_files(
                                    game.zobrist,
                                    en_passant_open_files(game.state))),
                halfmove_clock |-> game.halfmove_clock + 1,
                fullmove_number |-> IF side = "White"
                                    THEN game.fullmove_number
                                    ELSE game.fullmove_number + 1,
                is_capture |-> FALSE]
        finish(moved) ==
            IF moved.tag # "Ok" THEN moved
            ELSE revoke_captured_rook_right(moved, mov.to, opponent_side)
    IN  finish(CASE piece = "Pawn" -> move_pawn(acc, mov, side)
                 [] piece = "King" -> move_king(game, acc, mov, side)
                 [] piece = "Rook" -> move_rook(game, acc, mov, side)
                 [] OTHER -> move_piece(game, acc, mov, side, piece))

\* the Game that an Ok result carries
GameOf(res) ==
    [board |-> res.board, state |-> res.state, zobrist |-> res.zobrist,
     halfmove_clock |-> res.halfmove_clock,
     fullmove_number |-> res.fullmove_number]

\* Game::make_move, given the set its first statement computes
make_move_with(game, mov, pseudo_legal) ==
    LET king_check(res) ==
            IF res.tag # "Ok" THEN res
            ELSE IF is_king_attacked_panics(res.board,
                                            next_turn_side(game.state))
            THEN Err("Panic")
            ELSE IF is_king_attacked(res.board, next_turn_side(game.state))
            THEN Err("IllegalMove")
            ELSE [tag |-> "Ok", game |-> GameOf(res)]
    IN  IF mov.to \notin pseudo_legal THEN Err("IllegalMove")
        ELSE king_check(make_pseudo_legal_move(game, mov))

make_move(game, mov) ==
    IF en_passant_open_files_panics(game.state) THEN Err("Panic")
    ELSE make_move_with(game, mov,
                        Game_pseudo_legal_moves_from(game, mov.from))

\* an is_check that looks at the king of the side that has just moved
is_check_of_mover(game) ==
    is_king_attacked(game.board, flip(next_turn_side(game.state)))

is_check(game) ==
    is_king_attacked(game.board, next_turn_side(game.state))

\* an offer of the queen alone for a pawn that reaches the farthest rank
offered_moves_of_queen(game, from, to) ==
    IF RankOf(to) \in {7, 0} /\ is_pawn(game.board, from)
    THEN {Mov(from, to, "Queen")}
    ELSE {Mov(from, to, None)}

\* the moves legal_moves_from offers for one destination
offered_moves(game, from, to) ==
    IF RankOf(to) \in {7, 0} /\ is_pawn(game.board, from)
    THEN {Mov(from, to, PROMO_PIECES[i]) : i \in DOMAIN PROMO_PIECES}
    ELSE {Mov(from, to, None)}

\* offer_psuedo_move unwraps the result of make_pseudo_legal_move
legal_moves_from_panics(game, from) ==
    LET aborts(res) ==
            \/ res.tag # "Ok"
            \/ /\ has_both_kings(res.board)
               /\ is_king_attacked_panics(res.board,
                                          next_turn_side(game.state))
    IN  \/ en_passant_open_files_panics(game.state)
        \/ \E to \in Game_pseudo_legal_moves_from(game, from) :
             \E mov \in offered_moves(game, from, to) :
                aborts(make_pseudo_legal_move(game, mov))

legal_moves_from(game, from) ==
    LET offered(res) ==
            /\ has_both_kings(res.board)
            /\ ~is_king_attacked(res.board, next_turn_side(game.state))
    IN  {mov \in UNION {offered_moves(game, from, to) :
                          to \in Game_pseudo_legal_moves_from(game, from)} :
            offered(make_pseudo_legal_move(game, mov))}

legal_moves(game) ==
    UNION {legal_moves_from(game, from) :
             from \in pieces_by_side(game.board, next_turn_side(game.state))}

has_legal_moves(game) ==
    \E from \in pieces_by_side(game.board, next_turn_side(game.state)) :
        legal_moves_from(game, from) # {}

\* ------------------------------------------------------------------------
\* FEN (game.rs).  A string is a sequence of one-character strings.
\* ------------------------------------------------------------------------
LowerLetters ==
    <<"a", "b", "c", "d", "e", "f", "g", "h", "i", "j", "k", "l", "m",
      "n", "o", "p", "q", "r", "s", "t", "u", "v", "w", "x", "y", "z">>

UpperLetters ==
    <<"A", "B", "C", "D", "E", "F", "G", "H", "I", "J", "K", "L", "M",
      "N", "O", "P", "Q", "R", "S", "T", "U", "V", "W", "X", "Y", "Z">>

DigitChars == <<"0", "1", "2", "3", "4", "5", "6", "7", "8", "9">>

IndexIn(seq, c) == CHOOSE i \in DOMAIN seq : seq[i] = c

Range(seq) == {seq[i] : i \in DOMAIN seq}

is_whitespace(c) == c = " "

is_ascii_digit(c) == c \in Range(DigitChars)

to_digit(c) == IndexIn(DigitChars, c) - 1

is_uppercase(c) == c \in Range(UpperLetters)

is_alphabetic(c) == c \in Range(UpperLetters) \cup Range(LowerLetters)

to_ascii_lowercase(c) ==
    IF is_uppercase(c) THEN LowerLetters[IndexIn(UpperLetters, c)] ELSE c

to_ascii_uppercase(c) ==
    IF c \in Range(LowerLetters) THEN UpperLetters[IndexIn(LowerLetters, c)]
    ELSE c

\* TryFrom<char> for Piece and Into<char> for Piece (board/piece.rs)
PieceChars ==
    [p |-> "Pawn", r |-> "Rook", n |-> "Knight", b |-> "Bishop",
     q |-> "Queen", k |-> "King"]

piece_try_from_char(c) ==
    IF to_ascii_lowercase(c) \in DOMAIN PieceChars
    THEN PieceChars[to_ascii_lowercase(c)] ELSE None

piece_into_char(piece) == CHOOSE c \in DOMAIN PieceChars : PieceChars[c] = piece

\* TryFrom<char> for File (board/file.rs) : a file 0..7, or 8 for an error
file_try_from_char(c) ==
    IF to_ascii_lowercase(c) \in {LowerLetters[i] : i \in 1..8}
    THEN IndexIn(LowerLetters, to_ascii_lowercase(c)) - 1
    ELSE 8

\* TryFrom<char> for Rank (board/rank.rs) : a rank 0..7, or 8 for an error
rank_try_from_char(c) ==
    IF to_ascii_lowercase(c) \in {DigitChars[i] : i \in 2..9}
    THEN to_digit(to_ascii_lowercase(c)) - 1
    ELSE 8

file_into_char(file) == LowerLetters[file + 1]

\* u8 arithmetic on the square index : with overflow checks the operation
\* aborts, without them the value wraps
U8 == 256

\* "Parse positions" : one turn of the loop over the placement field; st
\* holds the position i in the string, the square index and the board, and
\* the turn either continues (tag Loop), breaks (Ok) or returns an error
parse_positions_step(fen, st, overflow_checks) ==
    IF st.i > Len(fen) THEN Err("InvalidArgument")
    ELSE LET char == fen[st.i]
             index == st.index
         IN  IF is_whitespace(char)
             THEN [tag |-> "Ok", next |-> st.i + 1, board |-> st.board]
             ELSE IF char = "/"
             THEN IF index < 16 /\ overflow_checks THEN Err("Panic")
                  ELSE [st EXCEPT !.i = @ + 1, !.index = (index - 16) % U8]
             ELSE IF is_ascii_digit(char)
             THEN IF index + to_digit(char) >= U8 /\ overflow_checks
                  THEN Err("Panic")
                  ELSE [st EXCEPT !.i = @ + 1,
                                  !.index = (index + to_digit(char)) % U8]
             ELSE IF is_alphabetic(char)
             THEN IF piece_try_from_char(char) = None
                  THEN Err("InvalidArgument")
                  ELSE IF index \notin Squares THEN Err("Panic")
                  ELSE [tag |-> "Loop",
                        i |-> st.i + 1,
                        index |-> index + 1,
                        board |-> set_piece(st.board,
                                            IF is_uppercase(char)
                                            THEN "White" ELSE "Black",
                                            piece_try_from_char(char),
                                            index)]
             ELSE Err("InvalidArgument")

RECURSIVE parse_positions(_, _, _)
parse_positions(fen, st, overflow_checks) ==
    LET res == parse_positions_step(fen, st, overflow_checks)
    IN  IF res.tag = "Loop" THEN parse_positions(fen, res, overflow_checks)
        ELSE res

\* "Parse castling rights" : the loop from character i
RECURSIVE parse_castling(_, _, _)
parse_castling(fen, i, state) ==
    IF i > Len(fen) THEN Err("InvalidArgument")
    ELSE LET char == fen[i]
             side == IF is_uppercase(char) THEN "White" ELSE "Black"
         IN  IF is_whitespace(char)
             THEN [tag |-> "Ok", next |-> i + 1, state |-> state]
             ELSE IF char = "-" THEN parse_castling(fen, i + 1, state)
             ELSE IF is_alphabetic(char)
             THEN IF to_ascii_lowercase(char) = "q"
                  THEN parse_castling(
                           fen, i + 1,
                           set_queen_side_castling_right(state, side, TRUE))
                  ELSE IF to_ascii_lowercase(char) = "k"
                  THEN parse_castling(
                           fen, i + 1,
                           set_king_side_castling_right(state, side, TRUE))
                  ELSE Err("InvalidArgument")
             ELSE Err("InvalidArgument")

\* "Parse en passants" : the loop from character i
RECURSIVE parse_en_passants(_, _, _)
parse_en_passants(fen, i, state) ==
    IF i > Len(fen) THEN Err("InvalidArgument")
    ELSE LET char == fen[i]
         IN  IF is_whitespace(char)
             THEN [tag |-> "Ok", next |-> i + 1, state |-> state]
             ELSE IF is_ascii_digit(char) \/ char = "-"
             THEN parse_en_passants(fen, i + 1, state)
             ELSE IF is_alphabetic(char)
             THEN IF file_try_from_char(to_ascii_lowercase(char)) = 8
                  THEN Err("InvalidArgument")
                  ELSE parse_en_passants(
                           fen, i + 1,
                           set_en_passant_open(
                               state,
                               file_try_from_char(to_ascii_lowercase(char)),
                               TRUE))
             ELSE Err("InvalidArgument")

ZeroState == {}

\* apply_fen : the five fields in turn; an Ok result carries what was parsed
apply_fen(fen, overflow_checks) ==
    LET clocks(pos, eps) ==
            IF eps.tag # "Ok" THEN eps
            ELSE IF eps.next > Len(fen) THEN Err("InvalidArgument")
            ELSE IF ~is_ascii_digit(fen[eps.next])
            THEN Err("InvalidArgument")
            ELSE IF eps.next + 2 > Len(fen) THEN Err("InvalidArgument")
            ELSE IF ~is_ascii_digit(fen[eps.next + 2])
            THEN Err("InvalidArgument")
            ELSE [tag |-> "Ok",
                  board |-> pos.board,
                  state |-> eps.state,
                  halfmove_clock |-> to_digit(fen[eps.next]),
                  fullmove_number |-> to_digit(fen[eps.next + 2])]
        en_passants(pos, cst) ==
            IF cst.tag # "Ok" THEN cst
            ELSE clocks(pos, parse_en_passants(fen, cst.next, cst.state))
        side_and_castling(pos) ==
            IF pos.tag # "Ok" THEN pos
            ELSE IF pos.next > Len(fen) THEN Err("InvalidArgument")
            ELSE IF fen[pos.next] \notin {"w", "b"}
            THEN Err("InvalidArgument")
            ELSE IF pos.next + 1 > Len(fen) THEN Err("InvalidArgument")
            ELSE en_passants(
                     pos,
                     parse_castling(
                         fen, pos.next + 2,
                         set_next_turn_side(
                             ZeroState,
                             IF fen[pos.next] = "w" THEN "White"
                             ELSE "Black")))
    IN  side_and_castling(
            parse_positions(fen, [tag |-> "Loop", i |-> 1, index |-> 56,
                                  board |-> EmptyBoard],
                            overflow_checks))

\* Game::new ; the state hash reads the en passant files
Game_new(fen, overflow_checks) ==
    LET hashed(res) ==
            IF res.tag # "Ok" THEN res
            ELSE IF en_passant_open_files_panics(res.state)
            THEN Err("Panic")
            ELSE [tag |-> "Ok",
                  game |-> [board |-> res.board,
                            state |-> res.state,
                            zobrist |-> Xor(BoardZobrist(res.board),
                                            StateZobrist(res.state)),
                            halfmove_clock |-> res.halfmove_clock,
                            fullmove_number |-> res.fullmove_number]]
    IN  hashed(apply_fen(fen, overflow_checks))

\* write!("{}", n) for an unsigned number
RECURSIVE write_number(_)
write_number(n) ==
    IF n < 10 THEN <<DigitChars[n + 1]>>
    ELSE Append(write_number(n \div 10), DigitChars[(n % 10) + 1])

\* "Write positions" : one turn of the loop of fen(); st holds irank, ifile,
\* skips and the string written so far, and done after the last square
write_positions_step(board, st) ==
    LET p == piece_at(board, st.irank * 8 + st.ifile)
        char == IF p.side = "White"
                THEN to_ascii_uppercase(piece_into_char(p.piece))
                ELSE to_ascii_lowercase(piece_into_char(p.piece))
        fen1 == IF p = NoPiece THEN st.fen
                ELSE IF st.skips > 0
                THEN Append(st.fen \o write_number(st.skips), char)
                ELSE Append(st.fen, char)
        skips1 == IF p = NoPiece THEN st.skips + 1 ELSE 0
        fen2 == IF skips1 > 0 THEN fen1 \o write_number(skips1) ELSE fen1
    IN  IF st.ifile # 7
        THEN [st EXCEPT !.ifile = @ + 1, !.skips = skips1, !.fen = fen1]
        ELSE IF st.irank = 0 THEN [st EXCEPT !.done = TRUE, !.fen = fen2]
        ELSE [st EXCEPT !.irank = @ - 1, !.ifile = 0, !.skips = 0,
                        !.fen = Append(fen2, "/")]

RECURSIVE write_positions(_, _)
write_positions(board, st) ==
    LET res == write_positions_step(board, st)
    IN  IF res.done THEN res.fen ELSE write_positions(board, res)

write_castling(state) ==
    LET w == (IF king_side_castling_right(state, "White") THEN <<"K">>
              ELSE <<>>) \o
             (IF queen_side_castling_right(state, "White") THEN <<"Q">>
              ELSE <<>>) \o
             (IF king_side_castling_right(state, "Black") THEN <<"k">>
              ELSE <<>>) \o
             (IF queen_side_castling_right(state, "Black") THEN <<"q">>
              ELSE <<>>)
    IN  IF w = <<>> THEN <<"-">> ELSE w

RECURSIVE write_en_passants(_, _)
write_en_passants(files, rank_char) ==
    IF files = <<>> THEN <<>>
    ELSE <<file_into_char(Head(files)), rank_char>> \o
         write_en_passants(Tail(files), rank_char)

\* Game::fen ; defined when en_passant_open_files does not abort
Game_fen(game) ==
    LET side == next_turn_side(game.state)
        files == en_passant_open_files(game.state)
    IN  write_positions(game.board,
                        [irank |-> 7, ifile |-> 0, skips |-> 0, fen |-> <<>>,
                         done |-> FALSE]) \o
        <<" ", IF side = "White" THEN "w" ELSE "b", " ">> \o
        write_castling(game.state) \o
        <<" ">> \o
        (IF files = <<>> THEN <<"-">>
         ELSE write_en_passants(files, IF side = "White" THEN "6" ELSE "3"))
        \o <<" ">> \o write_number(game.halfmove_clock) \o
        <<" ">> \o write_number(game.fullmove_number)

\* ------------------------------------------------------------------------
\* The positions the games start from
\* ------------------------------------------------------------------------
\* "rnbqkbnr/pppppppp/8/8/8/8/PPPPPPPP/RNBQKBNR w KQkq - 0 1"
FEN_NEW_GAME ==
    <<"r", "n", "b", "q", "k", "b", "n", "r", "/", "p", "p", "p", "p", "p",
      "p", "p", "p", "/", "8", "/", "8", "/", "8", "/", "8", "/", "P", "P",
      "P", "P", "P", "P", "P", "P", "/", "R", "N", "B", "Q", "K", "B", "N",
      "R", " ", "w", " ", "K", "Q", "k", "q", " ", "-", " ", "0", " ", "1">>

\* "r3k2r/7p/8/8/8/8/7P/R3K2R w KQkq - 0 1"
FEN_CASTLING ==
    <<"r", "3", "k", "2", "r", "/", "7", "p", "/", "8", "/", "8", "/", "8",
      "/", "8", "/", "7", "P", "/", "R", "3", "K", "2", "R", " ", "w", " ",
      "K", "Q", "k", "q", " ", "-", " ", "0", " ", "1">>

\* "4k3/3p4/8/4P3/8/8/8/4K3 b - - 0 1"
FEN_EN_PASSANT ==
    <<"4", "k", "3", "/", "3", "p", "4", "/", "8", "/", "4", "P", "3", "/",
      "8", "/", "8", "/", "8", "/", "4", "K", "3", " ", "b", " ", "-", " ",
      "-", " ", "0", " ", "1">>

\* "1n2k3/P7/8/8/8/8/7p/4K3 w - - 0 1"
FEN_PROMOTION ==
    <<"1", "n", "2", "k", "3", "/", "P", "7", "/", "8", "/", "8", "/", "8",
      "/", "8", "/", "7", "p", "/", "4", "K", "3", " ", "w", " ", "-", " ",
      "-", " ", "0", " ", "1">>

InitialFens == {FEN_NEW_GAME, FEN_CASTLING, FEN_EN_PASSANT, FEN_PROMOTION}

InitialGames == {Game_new(fen, TRUE).game : fen \in InitialFens}


\* ------------------------------------------------------------------------
\* Board with flags and halfmove clock : making moves (board/mod.rs)
\* ------------------------------------------------------------------------
\* Flags::default : 0b11111000_00000000
Flags_default == 11..15

get_whites_turn(flags) == bit(flags, WHITES_TURN_INDEX)

get_side_turn(board) ==
    IF get_whites_turn(board.flags) THEN "White" ELSE "Black"

\* Board::new : pieces is a set of records of side, piece and square
Board_new(pieces, flags, halfmove_clock) ==
    LET of_side(side) == {p.square : p \in {q \in pieces : q.side = side}}
        of_piece(piece) == {p.square : p \in {q \in pieces : q.piece = piece}}
    IN  [black |-> of_side("Black"), white |-> of_side("White"),
         kings |-> of_piece("King"), queens |-> of_piece("Queen"),
         rooks |-> of_piece("Rook"), bishops |-> of_piece("Bishop"),
         knights |-> of_piece("Knight"), pawns |-> of_piece("Pawn"),
         flags |-> flags, halfmove_clock |-> halfmove_clock]

Board_default ==
    [black |-> RANK_7 \cup RANK_8, white |-> RANK_1 \cup RANK_2,
     kings |-> {E1, E8}, queens |-> {D1, D8}, rooks |-> {A1, H1, A8, H8},
     bishops |-> {C1, F1, C8, F8}, knights |-> {1, 6, 57, 62},
     pawns |-> RANK_2 \cup RANK_7,
     flags |-> Flags_default, halfmove_clock |-> 0]

\* get_king_square pops a square of an empty bit set when the side has no
\* king, and pop_square asserts the set is not empty
get_king_square_panics(board, side) ==
    get_pieces_by_side(board, side) \cap board.kings = {}

get_king_square(board, side) ==
    bit_scan_forward(get_pieces_by_side(board, side) \cap board.kings)

\* fold(BitBoard::EMPTY, |bb, file| bb & BitBoard::from(*file))
RECURSIVE fold_files(_, _)
fold_files(bb, files) ==
    IF files = <<>> THEN bb
    ELSE fold_files(bb \cap Shl(FILE_A, Head(files)), Tail(files))

get_pseudo_legal_moves_from(board, from) ==
    LET found == get_piece_at(board, from)
        side == found.side
        piece == found.piece
        not_own_pieces == FULL \ get_pieces_by_side(board, side)
        not_occuppied == FULL \ occupied(board)
        king == {from}
        castling_queen_side ==
            IF queen_side_castling_right(board.flags, side)
            THEN west_one(west_one(king) \cap not_occuppied)
                     \cap not_occuppied \cap FILE_C
            ELSE EMPTY
        castling_king_side ==
            IF king_side_castling_right(board.flags, side)
            THEN east_one(east_one(king) \cap not_occuppied)
                     \cap not_occuppied \cap FILE_G
            ELSE EMPTY
        black_pawns == board.black \cap board.pawns
        white_pawns == board.white \cap board.pawns
        folded == fold_files(EMPTY, en_passant_open_files(board.flags))
        white_pawn ==
            LET any_attacks == white_pawn_any_attacks_mask(white_pawns)
                sgl_targets == north_one(white_pawns) \cap not_own_pieces
                any_targets == sgl_targets \cup
                                   (north_one(sgl_targets) \cap RANK_4)
                pas_targets == RANK_6 \cap folded
            IN  ((any_attacks \cap (pas_targets \cup black_pawns))
                    \cup any_targets) \cap not_own_pieces
        black_pawn ==
            LET any_attacks == black_pawn_any_attacks_mask(black_pawns)
                sgl_targets == south_one(black_pawns) \cap not_own_pieces
                any_targets == sgl_targets \cup
                                   (south_one(sgl_targets) \cap RANK_5)
                pas_targets == RANK_3 \cap folded
            IN  ((any_attacks \cap (pas_targets \cup white_pawns))
                    \cup any_targets) \cap not_own_pieces
    IN  IF found = NoPiece THEN EMPTY
        ELSE CASE piece = "Bishop" -> bishop_attacks(board, from) \cap not_own_pieces
               [] piece = "Rook" -> rook_attacks(board, from) \cap not_own_pieces
               [] piece = "Queen" -> queen_attacks(board, from) \cap not_own_pieces
               [] piece = "Knight" -> knight_attacks_table[from] \cap not_own_pieces
               [] piece = "King" ->
                      (king_attacks_table[from] \cap not_own_pieces)
                          \cup castling_king_side \cup castling_queen_side
               [] piece = "Pawn" ->
                      IF side = "White" THEN white_pawn ELSE black_pawn

\* the pawn arms read the open files, and File::try_from(next).unwrap()
\* aborts on a value that is no file
get_pseudo_legal_moves_from_panics(board, from) ==
    /\ get_piece_at(board, from) # NoPiece
    /\ get_piece_at(board, from).piece = "Pawn"
    /\ en_passant_open_files_panics(board.flags)

\* Event : one record shape for every variant; a field a variant does not
\* carry holds None (side, piece) or -1 (at : a square or a file)
Ev(event, side, piece, at) ==
    [event |-> event, side |-> side, piece |-> piece, at |-> at]

\* Ok(()) with the board and the events the call has accumulated
BoardOk(acc) == [tag |-> "Ok", board |-> acc.board, events |-> acc.events]

\* the early return of the double push : Ok(()) before the turn passes
BoardReturn(acc) ==
    [tag |-> "Return", board |-> acc.board, events |-> acc.events]

\* a castling right of the side is dropped, with its event
king_side_right_lost(acc, side) ==
    [board |-> [acc.board EXCEPT
                   !.flags = set_king_side_castling_right(@, side, FALSE)],
     events |-> Append(acc.events,
                       Ev("KingSideCastlingRightLost", side, None, -1))]

queen_side_right_lost(acc, side) ==
    [board |-> [acc.board EXCEPT
                   !.flags = set_queen_side_castling_right(@, side, FALSE)],
     events |-> Append(acc.events,
                       Ev("QueenSideCastlingRightLost", side, None, -1))]

\* clear_piece(from), set_piece(side, new_piece, to) and their two events
relocated(acc, side, piece, new_piece, from, to) ==
    [board |-> set_piece(clear_piece(acc.board, from), side, new_piece, to),
     events |-> acc.events \o
                <<Ev("PieceLeftSquare", side, piece, from),
                  Ev("PieceEnteredSquare", side, new_piece, to)>>]

\* "Handle captures" of the king, knight, bishop, queen and rook arms
captured(acc, opponent_side, opponent_pieces, to) ==
    IF to \in opponent_pieces
    THEN [board |-> [clear_piece(acc.board, to) EXCEPT !.halfmove_clock = 0],
          events |-> Append(acc.events,
                            Ev("PieceLeftSquare", opponent_side,
                               get_piece_at(acc.board, to).piece, to))]
    ELSE acc

\* the Piece::Pawn arm; the result is a record with a tag : "Ok" (the turn
\* passes), "Return" (the early return of the double push) or an error
pawn_arm(acc, ply, side, opponent_side, opponent_pieces) ==
    LET from == ply.from
        to == ply.to
        acc_0 == [acc EXCEPT !.board.halfmove_clock = 0]
        is_capture == FileOf(from) # FileOf(to)
        en_passant == to \notin opponent_pieces
        behind == IF side = "White" THEN south_one({to}) ELSE north_one({to})
        captured_square == IF en_passant THEN bit_scan_forward(behind) ELSE to
        capture_panics ==
            /\ is_capture
            /\ en_passant
            /\ \/ behind = {}
               \/ get_piece_at(acc_0.board, bit_scan_forward(behind)) = NoPiece
        acc_captured ==
            relocated(
                [board |-> clear_piece(acc_0.board, captured_square),
                 events |-> Append(acc_0.events,
                                   Ev("PieceLeftSquare", opponent_side,
                                      get_piece_at(acc_0.board,
                                                   captured_square).piece,
                                      captured_square))],
                side, "Pawn", "Pawn", from, to)
        double_push ==
            /\ ~is_capture
            /\ <<RankOf(from), RankOf(to)>> \in {<<1, 3>>, <<6, 4>>}
        acc_double ==
            relocated(
                [board |-> [acc_0.board EXCEPT
                               !.flags = set_en_passant_open(@, FileOf(to), TRUE)],
                 events |-> Append(acc_0.events,
                                   Ev("EnPassantOpened", None, None, FileOf(to)))],
                side, "Pawn", "Pawn", from, to)
        acc_1 == IF is_capture THEN acc_captured ELSE acc_0
    IN  IF capture_panics THEN Err("Panic")
        ELSE IF double_push
        THEN BoardReturn(acc_double)
        ELSE IF RankOf(to) \in {7, 0}
        THEN IF ply.promotion = None THEN Err("InvalidArgument")
             ELSE BoardOk(relocated(acc_1, side, "Pawn", ply.promotion,
                                    from, to))
        ELSE BoardOk(relocated(acc_1, side, "Pawn", "Pawn", from, to))

\* the Piece::King arm; flags are the flags of the board moved from
king_arm(acc, ply, side, opponent_side, opponent_pieces, flags) ==
    LET from == ply.from
        to == ply.to
        white == side = "White"
        king_square == IF white THEN E1 ELSE E8
        cstl_ks_k_square == IF white THEN G1 ELSE G8
        cstl_ks_r_from_square == IF white THEN H1 ELSE H8
        cstl_ks_r_to_square == IF white THEN F1 ELSE F8
        cstl_qs_k_square == IF white THEN C1 ELSE C8
        cstl_qs_r_from_square == IF white THEN A1 ELSE A8
        cstl_qs_r_to_square == IF white THEN D1 ELSE D8
        king_rights_lost(acc_1) ==
            IF king_side_castling_right(flags, side)
            THEN king_side_right_lost(acc_1, side) ELSE acc_1
        queen_rights_lost(acc_2) ==
            IF queen_side_castling_right(flags, side)
            THEN queen_side_right_lost(acc_2, side) ELSE acc_2
    IN  BoardOk(relocated(
            queen_rights_lost(king_rights_lost(
                IF to \in opponent_pieces
                THEN captured(acc, opponent_side, opponent_pieces, to)
                ELSE IF from = king_square /\ to = cstl_ks_k_square
                THEN relocated(acc, side, "Rook", "Rook",
                               cstl_ks_r_from_square, cstl_ks_r_to_square)
                ELSE IF from = king_square /\ to = cstl_qs_k_square
                THEN relocated(acc, side, "Rook", "Rook",
                               cstl_qs_r_from_square, cstl_qs_r_to_square)
                ELSE acc)),
            side, "King", "King", from, to))

\* the Piece::Knight | Piece::Bishop | Piece::Queen arm
piece_arm(acc, ply, side, piece, opponent_side, opponent_pieces) ==
    BoardOk(relocated(captured(acc, opponent_side, opponent_pieces, ply.to),
                      side, piece, piece, ply.from, ply.to))

\* the Piece::Rook arm
rook_arm(acc, ply, side, opponent_side, opponent_pieces, flags) ==
    LET from == ply.from
        king_side_origin == IF side = "White" THEN H1 ELSE H8
        queen_side_origin == IF side = "White" THEN A1 ELSE A8
        rights_lost(acc_1) ==
            IF from = king_side_origin /\ king_side_castling_right(flags, side)
            THEN king_side_right_lost(acc_1, side)
            ELSE IF from = queen_side_origin
                    /\ queen_side_castling_right(flags, side)
            THEN queen_side_right_lost(acc_1, side)
            ELSE acc_1
    IN  BoardOk(relocated(
            rights_lost(captured(acc, opponent_side, opponent_pieces, ply.to)),
            side, "Rook", "Rook", from, ply.to))

try_make_pseudo_legal_move(board, ply) ==
    LET found == get_piece_at(board, ply.from)
        side == found.side
        piece == found.piece
        open_files == en_passant_open_files(board.flags)
        acc == [board |-> [board EXCEPT
                              !.flags = reset_en_passant_open_files(@)],
                events |-> [i \in DOMAIN open_files |->
                               Ev("EnPassantClosed", None, None, open_files[i])]]
        opponent_side == flip(side)
        opponent_pieces == get_pieces_by_side(board, opponent_side)
        turn_passes(res) ==
            IF res.tag = "Ok"
            THEN BoardOk([board |-> res.board,
                          events |-> Append(res.events,
                                            Ev("NextTurn", opponent_side,
                                               None, -1))])
            ELSE IF res.tag = "Return" THEN BoardOk(res)
            ELSE res
    IN  IF found = NoPiece THEN Err("InvalidArgument")
        ELSE IF side # get_side_turn(board) THEN Err("InvalidArgument")
        ELSE IF en_passant_open_files_panics(board.flags) THEN Err("Panic")
        ELSE turn_passes(
                 CASE piece = "Pawn" ->
                        pawn_arm(acc, ply, side, opponent_side, opponent_pieces)
                   [] piece = "King" ->
                        king_arm(acc, ply, side, opponent_side,
                                 opponent_pieces, board.flags)
                   [] piece = "Rook" ->
                        rook_arm(acc, ply, side, opponent_side,
                                 opponent_pieces, board.flags)
                   [] OTHER ->
                        piece_arm(acc, ply, side, piece, opponent_side,
                                  opponent_pieces))

\* is_attacked(get_king_square(side_moved), side_moved.flip()) on the board
\* the pseudo-legal move produced
king_check(res, side_moved) ==
    IF res.tag # "Ok" THEN res
    ELSE IF get_king_square_panics(res.board, side_moved) THEN Err("Panic")
    ELSE IF is_attacked(res.board, get_king_square(res.board, side_moved),
                        flip(side_moved))
    THEN Err("IllegalMove")
    ELSE res

try_make_move(board, ply) ==
    IF get_pseudo_legal_moves_from_panics(board, ply.from) THEN Err("Panic")
    ELSE IF ply.to \notin get_pseudo_legal_moves_from(board, ply.from)
    THEN Err("IllegalMove")
    ELSE king_check(try_make_pseudo_legal_move(board, ply),
                    get_side_turn(board))

\* the loop of get_legal_moves_from, with the queen promotion it presents
get_legal_moves_from(board, from) ==
    {to \in get_pseudo_legal_moves_from(board, from) :
        king_check(try_make_pseudo_legal_move(board, Mov(from, to, "Queen")),
                   get_side_turn(board)).tag = "Ok"}

side_has_legal_move(board, side) ==
    \E square \in get_pieces_by_side(board, side) :
        get_legal_moves_from(board, square) # {}
\* ------------------------------------------------------------------------
\* perft (perft.rs)
\* ------------------------------------------------------------------------
\* legal_moves unwraps in offer_psuedo_move for every piece of the side
legal_moves_panics(game) ==
    \E from \in pieces_by_side(game.board, next_turn_side(game.state)) :
        legal_moves_from_panics(game, from)

\* nodes += perft(&game_new, depth - 1)? : the sum so far and one more term
perft_add(sum, term) ==
    IF sum.tag # "Ok" THEN sum
    ELSE IF term.tag # "Ok" THEN term
    ELSE [tag |-> "Ok", nodes |-> sum.nodes + term.nodes]

\* a perft that counts the moves of the first level at every depth
perft_of_one_level(game, depth) ==
    [tag |-> "Ok", nodes |-> Cardinality(legal_moves(game))]

\* the loop of perft over the moves not yet taken
RECURSIVE perft_loop(_, _, _)
RECURSIVE perft(_, _)
perft_loop(game, movs, depth) ==
    IF movs = {} THEN [tag |-> "Ok", nodes |-> 0]
    ELSE LET mov == CHOOSE m \in movs : TRUE
             term(made) ==
                 IF made.tag # "Ok" THEN made ELSE perft(made.game, depth - 1)
         IN  perft_add(perft_loop(game, movs \ {mov}, depth),
                       term(make_move(game, mov)))

perft(game, depth) ==
    IF legal_moves_panics(game) THEN Err("Panic")
    ELSE IF depth = 1
    THEN [tag |-> "Ok", nodes |-> Cardinality(legal_moves(game))]
    ELSE perft_loop(game, legal_moves(game), depth)

\* the order in which main takes the moves of legal_moves : the origins
\* from the last to the first, and the moves of an origin in the order
\* legal_moves_from found them
promotion_index(promotion) ==
    IF promotion = None THEN 0
    ELSE CHOOSE i \in DOMAIN PROMO_PIECES : PROMO_PIECES[i] = promotion

takes_before(m, n) ==
    \/ m.from > n.from
    \/ m.from = n.from /\ m.to < n.to
    \/ m.from = n.from /\ m.to = n.to
          /\ promotion_index(m.promotion) <= promotion_index(n.promotion)

RECURSIVE main_movs(_)
main_movs(movs) ==
    IF movs = {} THEN <<>>
    ELSE LET first == CHOOSE m \in movs : \A n \in movs : takes_before(m, n)
         IN  <<first>> \o main_movs(movs \ {first})

\* ------------------------------------------------------------------------
\* The contract (dotchess/lib.rs) : the Game methods it calls, the move text
\* it receives, its storage and its make_move message
\* ------------------------------------------------------------------------

\* TryFrom<&str> for Mov (board/mov.rs) : two squares and, when a fifth
\* character follows, a promotion piece; characters after it are not read
Mov_try_from(value) ==
    LET promoted(from, to) ==
            IF Len(value) < 5 THEN [tag |-> "Ok", mov |-> Mov(from, to, None)]
            ELSE IF piece_try_from_char(value[5]) = None
            THEN Err("InvalidArgument")
            ELSE [tag |-> "Ok",
                  mov |-> Mov(from, to, piece_try_from_char(value[5]))]
        square(i) ==
            IF Len(value) < i + 1 THEN 64
            ELSE IF file_try_from_char(value[i]) = 8 THEN 64
            ELSE IF rank_try_from_char(value[i + 1]) = 8 THEN 64
            ELSE SquareOf(file_try_from_char(value[i]),
                          rank_try_from_char(value[i + 1]))
        squares(from, to) ==
            IF from = 64 \/ to = 64 THEN Err("InvalidArgument")
            ELSE promoted(from, to)
    IN  squares(square(1), square(3))

\* Board::get_pieces, as (side, piece, square) records
pieces(board) ==
    {[side |-> piece_at(board, sq).side, piece |-> piece_at(board, sq).piece,
      square |-> sq] : sq \in {s \in occupied(board) : piece_at(board, s) # NoPiece}}

\* the score has_sufficient_mating_material gives a side
mating_material_score(game, side) ==
    LET of_side == {p \in pieces(game.board) : p.side = side}
    IN  Cardinality({p \in of_side : p.piece \in {"Knight", "Bishop"}}) +
        2 * Cardinality({p \in of_side : p.piece \in {"Pawn", "Rook", "Queen"}})

\* the pieces in the order get_pieces pushes them : pop_square takes the
\* lowest square first
RECURSIVE pieces_in_order(_)
pieces_in_order(left) ==
    IF left = {} THEN <<>>
    ELSE LET first == CHOOSE p \in left : \A q \in left : p.square <= q.square
         IN  <<first>> \o pieces_in_order(left \ {first})

\* the loop of has_sufficient_mating_material over the pieces yet to visit,
\* with the two scores so far
RECURSIVE mating_material_loop(_, _, _)
mating_material_loop(left, white_score, black_score) ==
    IF left = <<>> THEN FALSE
    ELSE LET side == Head(left).side
             piece == Head(left).piece
             added == CASE piece \in {"Knight", "Bishop"} -> 1
                        [] piece \in {"Pawn", "Rook", "Queen"} -> 2
                        [] piece = "King" -> 0
             white_new == IF side = "White" THEN white_score + added
                          ELSE white_score
             black_new == IF side = "Black" THEN black_score + added
                          ELSE black_score
         IN  IF white_new > 1 \/ black_new > 1 THEN TRUE
             ELSE mating_material_loop(Tail(left), white_new, black_new)

\* Game::has_sufficient_mating_material
has_sufficient_mating_material(game) ==
    mating_material_loop(pieces_in_order(pieces(game.board)), 0, 0)

\* the Game methods of the contract's build
side_next_in_turn(game) == next_turn_side(game.state)

no_side_have_sufficient_mating_material(game) ==
    ~has_sufficient_mating_material(game)

side_has_sufficient_mating_material(game, side) ==
    mating_material_score(game, side) > 1

BALANCE_DISTRIBUTION_RATIO == 98

NoGameOver == [winner |-> None, reason |-> None, paid |-> <<0, 0>>]

NoEvent == <<>>

\* DotChess::from_fen at block number block ; defined when Game::new succeeds
DotChess_from_fen(white, black, block_base, block_increment, fen, block) ==
    LET stored(game) ==
            [game |-> game,
             info |-> [white_account |-> white, black_account |-> black,
                       white_blocks_left |-> block_base,
                       black_blocks_left |-> block_base,
                       white_draw_offer |-> FALSE,
                       black_draw_offer |-> FALSE,
                       last_move_block |-> block],
             zobrist |-> <<game.zobrist>>,
             block_increment |-> block_increment]
    IN  stored(Game_new(fen, TRUE).game)

\* how a message ends : the storage it leaves, what it returns, what the
\* engine's make_move returned to it, and the events it emitted
Outcome(self, result, engine, over, event) ==
    [self |-> self, result |-> result, engine |-> engine, over |-> over,
     event |-> event]

side_account(self, side) ==
    IF side = "White" THEN self.info.white_account
    ELSE self.info.black_account

side_has_next_turn(self, side) == side = side_next_in_turn(self.game)

side_belongs_to_caller(self, caller, side) == caller = side_account(self, side)

block_diff_since_last_move(self, block) == block - self.info.last_move_block

side_blocks_left(self, block, side) ==
    LET left(blocks_left, block_diff) ==
            IF blocks_left + 1 < block_diff THEN 0
            ELSE blocks_left + 1 - block_diff
        blocks(blocks_left) ==
            IF side_has_next_turn(self, side)
            THEN left(blocks_left, block_diff_since_last_move(self, block))
            ELSE blocks_left
    IN  blocks(IF side = "White" THEN self.info.white_blocks_left
               ELSE self.info.black_blocks_left)

\* terminate_game : the pot goes to the winner or is split, GameOver is
\* emitted and the contract is removed; the call does not return
terminate_game(self, balance, winner, reason, engine) ==
    LET paid(pot) ==
            IF winner = "White" THEN <<pot, 0>>
            ELSE IF winner = "Black" THEN <<0, pot>>
            ELSE <<pot \div 2, pot \div 2>>
    IN  Outcome(self, "Terminated", engine,
                [winner |-> winner, reason |-> reason,
                 paid |-> paid(balance - balance \div BALANCE_DISTRIBUTION_RATIO)],
                NoEvent)

terminate_game_out_of_blocks(self, balance, out_of_blocks_side, engine) ==
    IF side_has_sufficient_mating_material(self.game, flip(out_of_blocks_side))
    THEN terminate_game(self, balance, flip(out_of_blocks_side), "Abandonment",
                        engine)
    ELSE terminate_game(self, balance, None, "Abandonment", engine)

\* a max_repetition that counts the hashes of the history, equal or not
max_repetition_of_any(self) == Len(self.zobrist)

\* max_repetition : the highest count of one hash value in the history;
\* the unwrap needs a history that is not empty
max_repetition(self) ==
    LET counted(values) ==
            Max({Cardinality({j \in DOMAIN values : values[j] = values[i]}) :
                    i \in DOMAIN values})
    IN  counted([i \in DOMAIN self.zobrist |->
                    ZobristHash_value(self.zobrist[i])])

\* make_move after the engine accepted the move : the outcome checks, the
\* history, the blocks, the stored game and the BoardUpdate event
moved(self, env, us_side, mov, game_new) ==
    LET history ==
            Append(IF game_new.halfmove_clock = 0 THEN <<>> ELSE self.zobrist,
                   game_new.zobrist)
        spent(blocks_left) ==
            (IF game_new.fullmove_number > 40
             THEN blocks_left + self.block_increment ELSE blocks_left)
            - block_diff_since_last_move(self, env.block)
        info_new ==
            IF us_side = "White"
            THEN [self.info EXCEPT !.white_blocks_left = spent(@),
                                   !.last_move_block = env.block]
            ELSE [self.info EXCEPT !.black_blocks_left = spent(@),
                                   !.last_move_block = env.block]
        updated(stored) ==
            IF side_blocks_left(stored, env.block, us_side) = 0
            THEN terminate_game_out_of_blocks(stored, env.balance, us_side, "Ok")
            ELSE IF max_repetition(stored) >= 3
            THEN terminate_game(stored, env.balance, None,
                                "ThreefoldRepetition", "Ok")
            ELSE IF stored.game.halfmove_clock >= 100
            THEN terminate_game(stored, env.balance, None, "FiftyMoveRule", "Ok")
            ELSE IF en_passant_open_files_panics(stored.game.state)
            THEN Outcome(self, "Panic", "Ok", NoGameOver, NoEvent)
            ELSE Outcome(stored, "Ok", "Ok", NoGameOver,
                         [next_side |-> flip(us_side),
                          next_move_block_deadline |->
                              side_blocks_left(stored, env.block, flip(us_side))
                              + env.block,
                          last_move |-> mov,
                          last_side_blocks_left |->
                              IF us_side = "White"
                              THEN stored.info.white_blocks_left
                              ELSE stored.info.black_blocks_left,
                          fen |-> Game_fen(stored.game)])
    IN  IF legal_moves_panics(game_new)
           \/ is_king_attacked_panics(game_new.board, flip(us_side))
        THEN Outcome(self, "Panic", "Ok", NoGameOver, NoEvent)
        ELSE IF ~has_legal_moves(game_new)
        THEN IF is_check(game_new)
             THEN terminate_game(self, env.balance, us_side, "Checkmate", "Ok")
             ELSE terminate_game(self, env.balance, None, "Stalemate", "Ok")
        ELSE IF no_side_have_sufficient_mating_material(self.game)
        THEN terminate_game(self, env.balance, None,
                            "InsufficientMatingMaterial", "Ok")
        ELSE updated([self EXCEPT !.game = game_new, !.info = info_new,
                                  !.zobrist = history])

\* a make_move that puts the hash of the stored game into the history
\* before it gives the move to the engine
make_move_history_first(self, env, mov) ==
    LET us_side == side_next_in_turn(self.game)
        recorded == [self EXCEPT !.zobrist = Append(@, self.game.zobrist)]
        made(res) ==
            IF res.tag # "Ok"
            THEN Outcome(recorded, res.tag, res.tag, NoGameOver, NoEvent)
            ELSE moved(self, env, us_side, mov, res.game)
        parsed(moov) ==
            IF moov.tag # "Ok"
            THEN Outcome(self, moov.tag, "NotCalled", NoGameOver, NoEvent)
            ELSE made(make_move(self.game, moov.mov))
    IN  IF ~side_belongs_to_caller(self, env.caller, us_side)
        THEN Outcome(self, "InvalidCaller", "NotCalled", NoGameOver, NoEvent)
        ELSE IF side_blocks_left(self, env.block, us_side) = 0
        THEN terminate_game_out_of_blocks(self, env.balance, us_side,
                                          "NotCalled")
        ELSE parsed(Mov_try_from(mov))

\* the make_move message, called in the environment env : the caller, the
\* block number and the balance of the contract
DotChess_make_move(self, env, mov) ==
    LET us_side == side_next_in_turn(self.game)
        made(res) ==
            IF res.tag # "Ok"
            THEN Outcome(self, res.tag, res.tag, NoGameOver, NoEvent)
            ELSE moved(self, env, us_side, mov, res.game)
        parsed(moov) ==
            IF moov.tag # "Ok"
            THEN Outcome(self, moov.tag, "NotCalled", NoGameOver, NoEvent)
            ELSE made(make_move(self.game, moov.mov))
    IN  IF ~side_belongs_to_caller(self, env.caller, us_side)
        THEN Outcome(self, "InvalidCaller", "NotCalled", NoGameOver, NoEvent)
        ELSE IF side_blocks_left(self, env.block, us_side) = 0
        THEN terminate_game_out_of_blocks(self, env.balance, us_side,
                                          "NotCalled")
        ELSE parsed(Mov_try_from(mov))

\* ------------------------------------------------------------------------
\* The packed form of a Mov (board/mov.rs), on u16 values
\* ------------------------------------------------------------------------
\* a code of the pieces that leaves 0 to the pawn's neighbour : Knight = 0
piece_into_u8_from_knight(piece) ==
    CASE piece = "Pawn" -> 5
      [] piece = "Knight" -> 0
      [] piece = "Bishop" -> 1
      [] piece = "Rook" -> 2
      [] piece = "Queen" -> 3
      [] piece = "King" -> 4

\* Into<u8> for Piece : the discriminants of the enum, Pawn = 0
piece_into_u8(piece) ==
    CASE piece = "Pawn" -> 0
      [] piece = "Knight" -> 1
      [] piece = "Bishop" -> 2
      [] piece = "Rook" -> 3
      [] piece = "Queen" -> 4
      [] piece = "King" -> 5

\* TryFrom<u8> for Piece ; None stands for the InvalidArgument error
piece_try_from_u8(value) ==
    CASE value = 0 -> "Pawn"
      [] value = 1 -> "Knight"
      [] value = 2 -> "Bishop"
      [] value = 3 -> "Rook"
      [] value = 4 -> "Queen"
      [] value = 5 -> "King"
      [] OTHER -> None

\* a & b and a | b on the low bits of two numbers
RECURSIVE BitAnd(_, _, _)
BitAnd(a, b, bits) ==
    IF bits = 0 THEN 0
    ELSE (IF a % 2 = 1 /\ b % 2 = 1 THEN 1 ELSE 0)
           + 2 * BitAnd(a \div 2, b \div 2, bits - 1)

RECURSIVE BitOr(_, _, _)
BitOr(a, b, bits) ==
    IF bits = 0 THEN 0
    ELSE (IF a % 2 = 1 \/ b % 2 = 1 THEN 1 ELSE 0)
           + 2 * BitOr(a \div 2, b \div 2, bits - 1)

\* the index of a square and the square of an index (square.rs)
Square_to_index(square) == 8 * RankOf(square) + FileOf(square)

Square_from_index(index) == SquareOf(BitAnd(index, 7, 8), index \div 8)

\* Mov::encode
Mov_encode(self) ==
    LET code == IF self.promotion = None THEN 0
                ELSE piece_into_u8(self.promotion)
        promotion == (BitAnd(code, 15, 8) * 2^12) % 2^16
        from == (BitAnd(Square_to_index(self.from), 63, 8) * 2^6) % 2^16
        to == BitAnd(Square_to_index(self.to), 63, 8)
    IN  BitOr(BitOr(promotion, from, 16), to, 16)

\* Mov::decode
Mov_decode(encoded) ==
    LET code == BitAnd(encoded \div 2^12, 15, 16) % 2^8
        from == BitAnd(encoded \div 2^6, 63, 16) % 2^8
        to == BitAnd(encoded, 63, 16) % 2^8
    IN  IF code # 0 /\ piece_try_from_u8(code) = None
        THEN Err("InvalidArgument")
        ELSE [tag |-> "Ok",
              mov |-> Mov(Square_from_index(from), Square_from_index(to),
                          IF code = 0 THEN None ELSE piece_try_from_u8(code))]


\* ------------------------------------------------------------------------
\* ZobristHash over a Board and over the events of a ply (zobrist.rs)
\* ------------------------------------------------------------------------
\* the keys one event XORs into the hash : the match of ZobristHash::apply.
\* The arm of the turn is written for NextTurn(Side::White) only; every
\* other event, NextTurn(Side::Black) with them, falls to the empty arm
event_keys(event) ==
    CASE event.event \in {"PieceLeftSquare", "PieceEnteredSquare"} ->
           {get_piece_hash_key_index(event.side, event.piece, event.at)}
      [] event.event = "NextTurn" /\ event.side = "White" ->
           {WHITE_TURN_HASH_KEY_INDEX}
      [] event.event = "QueenSideCastlingRightLost" ->
           {get_queen_castling_right_hash_key_index(event.side)}
      [] event.event = "KingSideCastlingRightLost" ->
           {get_king_castling_right_hash_key_index(event.side)}
      [] event.event \in {"EnPassantOpened", "EnPassantClosed"} ->
           {get_en_passant_hash_key_index(event.at)}
      [] OTHER -> {}

\* ZobristHash::apply : the events in order, each key XORed into the hash
RECURSIVE ZobristHash_apply(_, _)
ZobristHash_apply(zhash, events) ==
    IF events = <<>> THEN zhash
    ELSE ZobristHash_apply(Xor(zhash, event_keys(Head(events))), Tail(events))

\* ZobristHash::new : the pieces get_pieces lists, the open files, the
\* rights of both sides and the turn of White
RECURSIVE flip_all(_, _)
flip_all(zhash, indices) ==
    IF indices = {} THEN zhash
    ELSE LET index == Min(indices)
         IN  flip_all(flip_key(zhash, index), indices \ {index})

ZobristHash_new(b) ==
    LET of_pieces ==
            flip_all(zero, {get_piece_hash_key_index(p.side, p.piece, p.square) :
                               p \in pieces(b)})
        of_files ==
            flip_all(of_pieces, {get_en_passant_hash_key_index(file) :
                                    file \in {f \in 0..7 : en_passant_open(b.flags, f)}})
        of_queen_side ==
            flip_all(of_files, {get_queen_castling_right_hash_key_index(side) :
                                   side \in {s \in Sides : queen_side_castling_right(b.flags, s)}})
        of_king_side ==
            flip_all(of_queen_side, {get_king_castling_right_hash_key_index(side) :
                                        side \in {s \in Sides : king_side_castling_right(b.flags, s)}})
    IN  IF get_whites_turn(b.flags) THEN flip_key(of_king_side, WHITE_TURN_HASH_KEY_INDEX)
        ELSE of_king_side
\* ------------------------------------------------------------------------
\* The values a variable holds before anything was put in it
\* ------------------------------------------------------------------------
EmptyGame ==
    [board |-> EmptyBoard, state |-> ZeroState, zobrist |-> zero,
     halfmove_clock |-> 0, fullmove_number |-> 0]

NoMov == Mov(-1, -1, None)


\* what the storage variable holds before the contract exists
NoStorage ==
    [game |-> EmptyGame, info |-> <<>>, zobrist |-> <<>>, block_increment |-> 0]

\* what the feature variable holds before a feature was chosen
NoFeature == [kind |-> "None"]
\* ------------------------------------------------------------------------
\* State.  Each specification below drives one layer of the program and
\* leaves the variables of the other layers at their idle values.
\* ------------------------------------------------------------------------
VARIABLES
    game,           \* engine : the Game the caller holds
    mov,            \* engine : the move the caller presented last
    result,         \* engine : how the last make_move call ended
    calls,          \* engine : the number of make_move calls
    board,          \* board : the Board the caller holds
    board_result,   \* board : how the last try_make_move call ended
    board_events,   \* board : the events of the last accepted ply
    board_ply,      \* board : the number of accepted plies
    fen_checks,     \* fen : whether the build checks integer overflow
    fen_input,      \* fen : the string given to Game::new
    fen_result,     \* fen : how Game::new ended
    fen_game,       \* fen : the Game that Game::new returned
    fen_output,     \* fen : the string Game::fen wrote for it
    perft_args,     \* perft : the arguments : depth, fen and moves
    perft_pc,       \* perft : where main is
    perft_game,     \* perft : the Game of the fen argument
    perft_movs,     \* perft : the moves main has yet to take
    perft_sum,      \* perft : the sum main has accumulated
    path_a,         \* paths : the Game of the first caller
    path_b,         \* paths : the Game of the second caller
    path_moves,     \* paths : the accepted moves of each caller
    play_kind,      \* play : the line the caller plays
    play_game,      \* play : the Game the caller holds
    play_movs,      \* play : the moves accepted so far
    mat_game,       \* material : the Game the caller holds
    mat_moves,      \* material : the moves accepted so far
    mat_result,     \* material : what has_sufficient_mating_material returned
    pack_mov,       \* pack : the Mov the caller holds
    pack_encoded,   \* pack : what Mov::encode returned, -1 before the call
    pack_decoded,   \* pack : what Mov::decode returned
    key_feature,    \* key : the feature : a piece on a square, an open file, a right or the turn
    key_index,      \* key : the index returned, -1 before the call
    att_board,      \* attack : the Board the caller holds
    att_square,     \* attack : the square asked about, -1 when idle
    att_by_side,    \* attack : the side asked about
    att_asked,      \* attack : whether is_attacked has returned
    att_result,     \* attack : what is_attacked returned
    ray_board,      \* ray : the Board the caller holds
    ray_square,     \* ray : the origin of the ray, -1 when idle
    ray_direction,  \* ray : the direction of the ray
    ray_asked,      \* ray : whether get_ray_attacks has returned
    ray_attacks,    \* ray : the squares get_ray_attacks returned
    pawn_board,     \* pawn : the Board the caller holds
    pawn_from,      \* pawn : the square of the pawn, -1 when idle
    pawn_asked,     \* pawn : whether get_pseudo_legal_moves_from has returned
    pawn_moves,     \* pawn : the squares get_pseudo_legal_moves_from returned
    shift_set,      \* shift : the set the caller holds
    shift_direction, \* shift : the direction of the operator called, None before the call
    shift_result,   \* shift : the set the operator returned
    knight_square,  \* knight : the square asked about, -1 when idle
    knight_asked,   \* knight : whether knight_attacks_mask has returned
    knight_mask,    \* knight : the set knight_attacks_mask returned
    files_state,    \* files : the State the caller holds, as the set of its set bits
    files_asked,    \* files : whether en_passant_open_files has returned
    files_result,   \* files : the files en_passant_open_files returned, or Panic
    rep_host,       \* rep : the storage of the contract
    rep_over,       \* rep : the GameOver event, once the contract is removed
    rep_seen,       \* rep : the Game of the constructor and the Games the engine returned since
    host,           \* host : the storage of the contract
    host_block,     \* host : env : the block number
    host_result,    \* host : what the last message returned
    host_engine,    \* host : what the engine returned to the last message
    host_over,      \* host : the GameOver event, once the contract is removed
    host_event,     \* host : the event the last message emitted
    host_calls     \* host : the number of messages received

engineVars == <<game, mov, result, calls>>

boardVars == <<board, board_result, board_events, board_ply>>

fenVars == <<fen_checks, fen_input, fen_result, fen_game, fen_output>>

perftVars == <<perft_args, perft_pc, perft_game, perft_movs, perft_sum>>

pathsVars == <<path_a, path_b, path_moves>>

playVars == <<play_kind, play_game, play_movs>>

materialVars == <<mat_game, mat_moves, mat_result>>

packVars == <<pack_mov, pack_encoded, pack_decoded>>

keyVars == <<key_feature, key_index>>

attackVars == <<att_board, att_square, att_by_side, att_asked, att_result>>

rayVars == <<ray_board, ray_square, ray_direction, ray_asked, ray_attacks>>

pawnVars == <<pawn_board, pawn_from, pawn_asked, pawn_moves>>

shiftVars == <<shift_set, shift_direction, shift_result>>

knightVars == <<knight_square, knight_asked, knight_mask>>

filesVars == <<files_state, files_asked, files_result>>

repVars == <<rep_host, rep_over, rep_seen>>

hostVars == <<host, host_block, host_result, host_engine, host_over, host_event, host_calls>>

vars == <<engineVars, boardVars, fenVars, perftVars, pathsVars, playVars, materialVars, packVars, keyVars, attackVars, rayVars, pawnVars, shiftVars, knightVars, filesVars, repVars, hostVars>>

\* the variables of the layers other than engine
engineRest == <<boardVars, fenVars, perftVars, pathsVars, playVars, materialVars, packVars, keyVars, attackVars, rayVars, pawnVars, shiftVars, knightVars, filesVars, repVars, hostVars>>

\* the variables of the layers other than board
boardRest == <<engineVars, fenVars, perftVars, pathsVars, playVars, materialVars, packVars, keyVars, attackVars, rayVars, pawnVars, shiftVars, knightVars, filesVars, repVars, hostVars>>

\* the variables of the layers other than fen
fenRest == <<engineVars, boardVars, perftVars, pathsVars, playVars, materialVars, packVars, keyVars, attackVars, rayVars, pawnVars, shiftVars, knightVars, filesVars, repVars, hostVars>>

\* the variables of the layers other than perft
perftRest == <<engineVars, boardVars, fenVars, pathsVars, playVars, materialVars, packVars, keyVars, attackVars, rayVars, pawnVars, shiftVars, knightVars, filesVars, repVars, hostVars>>

\* the variables of the layers other than paths
pathsRest == <<engineVars, boardVars, fenVars, perftVars, playVars, materialVars, packVars, keyVars, attackVars, rayVars, pawnVars, shiftVars, knightVars, filesVars, repVars, hostVars>>

\* the variables of the layers other than play
playRest == <<engineVars, boardVars, fenVars, perftVars, pathsVars, materialVars, packVars, keyVars, attackVars, rayVars, pawnVars, shiftVars, knightVars, filesVars, repVars, hostVars>>

\* the variables of the layers other than material
materialRest == <<engineVars, boardVars, fenVars, perftVars, pathsVars, playVars, packVars, keyVars, attackVars, rayVars, pawnVars, shiftVars, knightVars, filesVars, repVars, hostVars>>

\* the variables of the layers other than pack
packRest == <<engineVars, boardVars, fenVars, perftVars, pathsVars, playVars, materialVars, keyVars, attackVars, rayVars, pawnVars, shiftVars, knightVars, filesVars, repVars, hostVars>>

\* the variables of the layers other than key
keyRest == <<engineVars, boardVars, fenVars, perftVars, pathsVars, playVars, materialVars, packVars, attackVars, rayVars, pawnVars, shiftVars, knightVars, filesVars, repVars, hostVars>>

\* the variables of the layers other than attack
attackRest == <<engineVars, boardVars, fenVars, perftVars, pathsVars, playVars, materialVars, packVars, keyVars, rayVars, pawnVars, shiftVars, knightVars, filesVars, repVars, hostVars>>

\* the variables of the layers other than ray
rayRest == <<engineVars, boardVars, fenVars, perftVars, pathsVars, playVars, materialVars, packVars, keyVars, attackVars, pawnVars, shiftVars, knightVars, filesVars, repVars, hostVars>>

\* the variables of the layers other than pawn
pawnRest == <<engineVars, boardVars, fenVars, perftVars, pathsVars, playVars, materialVars, packVars, keyVars, attackVars, rayVars, shiftVars, knightVars, filesVars, repVars, hostVars>>

\* the variables of the layers other than shift
shiftRest == <<engineVars, boardVars, fenVars, perftVars, pathsVars, playVars, materialVars, packVars, keyVars, attackVars, rayVars, pawnVars, knightVars, filesVars, repVars, hostVars>>

\* the variables of the layers other than knight
knightRest == <<engineVars, boardVars, fenVars, perftVars, pathsVars, playVars, materialVars, packVars, keyVars, attackVars, rayVars, pawnVars, shiftVars, filesVars, repVars, hostVars>>

\* the variables of the layers other than files
filesRest == <<engineVars, boardVars, fenVars, perftVars, pathsVars, playVars, materialVars, packVars, keyVars, attackVars, rayVars, pawnVars, shiftVars, knightVars, repVars, hostVars>>

\* the variables of the layers other than rep
repRest == <<engineVars, boardVars, fenVars, perftVars, pathsVars, playVars, materialVars, packVars, keyVars, attackVars, rayVars, pawnVars, shiftVars, knightVars, filesVars, hostVars>>

\* the variables of the layers other than host
hostRest == <<engineVars, boardVars, fenVars, perftVars, pathsVars, playVars, materialVars, packVars, keyVars, attackVars, rayVars, pawnVars, shiftVars, knightVars, filesVars, repVars>>

\* ------------------------------------------------------------------------
\* The engine as its caller drives it : the caller holds a Game, presents a
\* move, and keeps the Game that an accepted move returns (game.rs).
\* ------------------------------------------------------------------------
\* the number of make_move calls of a run
MaxCalls == 2

\* the promotion choices a caller presents : none, two of the four usual
\* pieces, a king and a pawn
Promotions == {None, "Queen", "Knight", "King", "Pawn"}

\* the destinations a caller presents from one origin : the pseudo-legal
\* ones, the origin itself, which never is one, and the square a rank up
Destinations(g, from) ==
    Game_pseudo_legal_moves_from(g, from) \cup {from, (from + 8) % 64}

\* the state a run starts from : the engine as a caller drives it (game.rs)
EngineInit ==
    /\ game \in InitialGames
    /\ mov = NoMov
    /\ result = "Init"
    /\ calls = 0
    /\ board = EmptyBoard
    /\ board_result = "Idle"
    /\ board_events = <<>>
    /\ board_ply = 0
    /\ fen_checks = FALSE
    /\ fen_input = <<>>
    /\ fen_result = "Idle"
    /\ fen_game = EmptyGame
    /\ fen_output = <<>>
    /\ perft_args = <<>>
    /\ perft_pc = "Idle"
    /\ perft_game = EmptyGame
    /\ perft_movs = <<>>
    /\ perft_sum = 0
    /\ path_a = EmptyGame
    /\ path_b = EmptyGame
    /\ path_moves = <<0, 0>>
    /\ play_kind = "Idle"
    /\ play_game = EmptyGame
    /\ play_movs = <<>>
    /\ mat_game = EmptyGame
    /\ mat_moves = 0
    /\ mat_result = "Idle"
    /\ pack_mov = NoMov
    /\ pack_encoded = -1
    /\ pack_decoded = Err("Idle")
    /\ key_feature = NoFeature
    /\ key_index = -1
    /\ att_board = EmptyBoard
    /\ att_square = -1
    /\ att_by_side = None
    /\ att_asked = FALSE
    /\ att_result = FALSE
    /\ ray_board = EmptyBoard
    /\ ray_square = -1
    /\ ray_direction = None
    /\ ray_asked = FALSE
    /\ ray_attacks = {}
    /\ pawn_board = EmptyBoard
    /\ pawn_from = -1
    /\ pawn_asked = FALSE
    /\ pawn_moves = {}
    /\ shift_set = {}
    /\ shift_direction = None
    /\ shift_result = {}
    /\ knight_square = -1
    /\ knight_asked = FALSE
    /\ knight_mask = {}
    /\ files_state = {}
    /\ files_asked = FALSE
    /\ files_result = <<>>
    /\ rep_host = NoStorage
    /\ rep_over = NoGameOver
    /\ rep_seen = <<>>
    /\ host = NoStorage
    /\ host_block = 0
    /\ host_result = "Idle"
    /\ host_engine = "Idle"
    /\ host_over = NoGameOver
    /\ host_event = NoEvent
    /\ host_calls = 0

\* Game::make_move : the caller keeps the Game an accepted move returns,
\* and its own Game when the call returns an error or aborts
MakeMove ==
    /\ calls < MaxCalls
    /\ \E from \in Squares :
          \E to \in Destinations(game, from), promotion \in Promotions :
             \E res \in {make_move(game, Mov(from, to, promotion))} :
                /\ mov' = Mov(from, to, promotion)
                /\ result' = res.tag
                /\ game' = IF res.tag = "Ok" THEN res.game ELSE game
                /\ calls' = calls + 1
    /\ UNCHANGED engineRest

EngineNext == MakeMove

Spec == EngineInit /\ [][EngineNext]_vars


\* ------------------------------------------------------------------------
\* The engine on a Game whose string names a castling right of a side that
\* has no rook in the corner of that right : Game::new takes the rights as
\* written (apply_fen, "Parse castling").
\* ------------------------------------------------------------------------
FEN_STALE_WHITE ==
    <<"4", "k", "3", "/", "8", "/", "8", "/", "8", "/", "8", "/", "8", "/",
      "8", "/", "4", "K", "3", " ", "w", " ", "K", "Q", " ", "-", " ", "0",
      " ", "1">>

FEN_STALE_BLACK ==
    <<"4", "k", "3", "/", "8", "/", "8", "/", "8", "/", "8", "/", "8", "/",
      "8", "/", "4", "K", "3", " ", "b", " ", "k", "q", " ", "-", " ", "0",
      " ", "1">>

StaleFens == {FEN_STALE_WHITE, FEN_STALE_BLACK}

StaleGames == {Game_new(fen, TRUE).game : fen \in StaleFens}
\* the state a run starts from : a Game made of a string that names a castling right of a side that has no rook in the corner
StaleInit ==
    /\ game \in StaleGames
    /\ mov = NoMov
    /\ result = "Init"
    /\ calls = 0
    /\ board = EmptyBoard
    /\ board_result = "Idle"
    /\ board_events = <<>>
    /\ board_ply = 0
    /\ fen_checks = FALSE
    /\ fen_input = <<>>
    /\ fen_result = "Idle"
    /\ fen_game = EmptyGame
    /\ fen_output = <<>>
    /\ perft_args = <<>>
    /\ perft_pc = "Idle"
    /\ perft_game = EmptyGame
    /\ perft_movs = <<>>
    /\ perft_sum = 0
    /\ path_a = EmptyGame
    /\ path_b = EmptyGame
    /\ path_moves = <<0, 0>>
    /\ play_kind = "Idle"
    /\ play_game = EmptyGame
    /\ play_movs = <<>>
    /\ mat_game = EmptyGame
    /\ mat_moves = 0
    /\ mat_result = "Idle"
    /\ pack_mov = NoMov
    /\ pack_encoded = -1
    /\ pack_decoded = Err("Idle")
    /\ key_feature = NoFeature
    /\ key_index = -1
    /\ att_board = EmptyBoard
    /\ att_square = -1
    /\ att_by_side = None
    /\ att_asked = FALSE
    /\ att_result = FALSE
    /\ ray_board = EmptyBoard
    /\ ray_square = -1
    /\ ray_direction = None
    /\ ray_asked = FALSE
    /\ ray_attacks = {}
    /\ pawn_board = EmptyBoard
    /\ pawn_from = -1
    /\ pawn_asked = FALSE
    /\ pawn_moves = {}
    /\ shift_set = {}
    /\ shift_direction = None
    /\ shift_result = {}
    /\ knight_square = -1
    /\ knight_asked = FALSE
    /\ knight_mask = {}
    /\ files_state = {}
    /\ files_asked = FALSE
    /\ files_result = <<>>
    /\ rep_host = NoStorage
    /\ rep_over = NoGameOver
    /\ rep_seen = <<>>
    /\ host = NoStorage
    /\ host_block = 0
    /\ host_result = "Idle"
    /\ host_engine = "Idle"
    /\ host_over = NoGameOver
    /\ host_event = NoEvent
    /\ host_calls = 0

SpecStale == StaleInit /\ [][EngineNext]_vars


\* ------------------------------------------------------------------------
\* The board as its caller drives it : the caller holds a Board, presents a
\* ply, and keeps the Board that an accepted ply returns (board/mod.rs).
\* ------------------------------------------------------------------------
MaxBoardPly == 2

BoardPromotions == {None, "Queen"}

Pc(side, piece, square) == [side |-> side, piece |-> piece, square |-> square]

\* Board::new positions : a king beside pawn-attacked squares, a castling
\* position, a promotion with a capture, an open en passant file, and a
\* position with black to move, and a queen side with a knight on b1
BoardInits ==
    {Board_default,
     Board_new({Pc("White", "King", 35), Pc("Black", "Pawn", 50),
                Pc("Black", "Pawn", 52), Pc("Black", "Pawn", 26),
                Pc("Black", "King", H8)}, {12}, 0),
     Board_new({Pc("White", "King", E1), Pc("White", "Rook", A1),
                Pc("White", "Rook", H1), Pc("White", "Pawn", 15),
                Pc("Black", "King", E8), Pc("Black", "Rook", 61),
                Pc("Black", "Rook", A8)},
               {8, 9, 10, 12}, 0),
     Board_new({Pc("White", "King", E1), Pc("White", "Pawn", 48),
                Pc("Black", "Knight", 57), Pc("Black", "King", E8)}, {12}, 0),
     Board_new({Pc("White", "King", E1), Pc("White", "Pawn", 36),
                Pc("Black", "Pawn", 35), Pc("Black", "King", E8)}, {3, 12}, 0),
     Board_new({Pc("White", "King", E1), Pc("White", "Pawn", 36),
                Pc("Black", "Pawn", 51), Pc("Black", "Rook", A8),
                Pc("Black", "King", E8)}, {10, 11}, 0),
     Board_new({Pc("White", "King", E1), Pc("White", "Rook", A1),
                Pc("White", "Knight", 1), Pc("Black", "King", E8)},
               {8, 12}, 0)}

\* the destinations a caller presents from one origin
BoardDestinations(b, from) ==
    get_pseudo_legal_moves_from(b, from) \cup {from, (from + 8) % 64}

\* the state a run starts from : the Board as a caller drives it (board/mod.rs)
BoardInit ==
    /\ game = EmptyGame
    /\ mov = NoMov
    /\ result = "Idle"
    /\ calls = 0
    /\ board \in BoardInits
    /\ board_result = "Init"
    /\ board_events = <<>>
    /\ board_ply = 0
    /\ fen_checks = FALSE
    /\ fen_input = <<>>
    /\ fen_result = "Idle"
    /\ fen_game = EmptyGame
    /\ fen_output = <<>>
    /\ perft_args = <<>>
    /\ perft_pc = "Idle"
    /\ perft_game = EmptyGame
    /\ perft_movs = <<>>
    /\ perft_sum = 0
    /\ path_a = EmptyGame
    /\ path_b = EmptyGame
    /\ path_moves = <<0, 0>>
    /\ play_kind = "Idle"
    /\ play_game = EmptyGame
    /\ play_movs = <<>>
    /\ mat_game = EmptyGame
    /\ mat_moves = 0
    /\ mat_result = "Idle"
    /\ pack_mov = NoMov
    /\ pack_encoded = -1
    /\ pack_decoded = Err("Idle")
    /\ key_feature = NoFeature
    /\ key_index = -1
    /\ att_board = EmptyBoard
    /\ att_square = -1
    /\ att_by_side = None
    /\ att_asked = FALSE
    /\ att_result = FALSE
    /\ ray_board = EmptyBoard
    /\ ray_square = -1
    /\ ray_direction = None
    /\ ray_asked = FALSE
    /\ ray_attacks = {}
    /\ pawn_board = EmptyBoard
    /\ pawn_from = -1
    /\ pawn_asked = FALSE
    /\ pawn_moves = {}
    /\ shift_set = {}
    /\ shift_direction = None
    /\ shift_result = {}
    /\ knight_square = -1
    /\ knight_asked = FALSE
    /\ knight_mask = {}
    /\ files_state = {}
    /\ files_asked = FALSE
    /\ files_result = <<>>
    /\ rep_host = NoStorage
    /\ rep_over = NoGameOver
    /\ rep_seen = <<>>
    /\ host = NoStorage
    /\ host_block = 0
    /\ host_result = "Idle"
    /\ host_engine = "Idle"
    /\ host_over = NoGameOver
    /\ host_event = NoEvent
    /\ host_calls = 0

\* Board::try_make_move : the caller keeps the Board and the events of an
\* accepted ply, and its own Board when the call returns an error or aborts
TryMakeMove ==
    /\ board_ply < MaxBoardPly
    /\ \E from \in Squares :
          \E to \in BoardDestinations(board, from),
             promotion \in BoardPromotions :
             \E res \in {try_make_move(board, Mov(from, to, promotion))} :
                /\ board_result' = res.tag
                /\ board' = IF res.tag = "Ok" THEN res.board ELSE board
                /\ board_events' = IF res.tag = "Ok" THEN res.events
                                   ELSE board_events
                /\ board_ply' = IF res.tag = "Ok" THEN board_ply + 1
                                ELSE board_ply
    /\ UNCHANGED boardRest

BoardNext == TryMakeMove

SpecBoard == BoardInit /\ [][BoardNext]_vars

\* ------------------------------------------------------------------------
\* Game::new and Game::fen on a string (game.rs).  A string given to
\* Game::new is a piece placement followed by the other five fields.
\* ------------------------------------------------------------------------
\* "rnbqkbnr/pppppppp/8/8/8/8/PPPPPPPP/RNBQKBNR" : the starting position
PLACEMENT_NEW_GAME ==
    <<"r", "n", "b", "q", "k", "b", "n", "r", "/", "p", "p", "p", "p", "p",
      "p", "p", "p", "/", "8", "/", "8", "/", "8", "/", "8", "/", "P", "P",
      "P", "P", "P", "P", "P", "P", "/", "R", "N", "B", "Q", "K", "B", "N",
      "R">>

\* "r3k2r/7p/8/8/8/8/7P/R3K2R" : kings, rooks and a pawn each
PLACEMENT_ROOKS ==
    <<"r", "3", "k", "2", "r", "/", "7", "p", "/", "8", "/", "8", "/", "8",
      "/", "8", "/", "7", "P", "/", "R", "3", "K", "2", "R">>

\* "4k3/8/8/8/8/8/8/4K3" : the two kings
PLACEMENT_KINGS ==
    <<"4", "k", "3", "/", "8", "/", "8", "/", "8", "/", "8", "/", "8", "/",
      "8", "/", "4", "K", "3">>

\* "8/8" : two ranks
PLACEMENT_TWO_RANKS ==
    <<"8", "/", "8">>

\* "4k3/8/8/8/8/8/8/8/4K3" : nine ranks
PLACEMENT_NINE_RANKS ==
    <<"4", "k", "3", "/", "8", "/", "8", "/", "8", "/", "8", "/", "8", "/",
      "8", "/", "8", "/", "4", "K", "3">>

\* "4k3/7/8/8/8/8/8/4K3" : a rank of seven squares
PLACEMENT_SHORT_RANK ==
    <<"4", "k", "3", "/", "7", "/", "8", "/", "8", "/", "8", "/", "8", "/",
      "8", "/", "4", "K", "3">>

\* "4k3/9/8/8/8/8/8/4K3" : a rank of nine squares
PLACEMENT_LONG_RANK ==
    <<"4", "k", "3", "/", "9", "/", "8", "/", "8", "/", "8", "/", "8", "/",
      "8", "/", "4", "K", "3">>

\* "4k3p/8/8/8/8/8/8/4K3" : a ninth piece square in the eighth rank
PLACEMENT_PAST_H8 ==
    <<"4", "k", "3", "p", "/", "8", "/", "8", "/", "8", "/", "8", "/", "8",
      "/", "8", "/", "4", "K", "3">>

\* "4k3/8/8/8/8/8/8/4X3" : a letter that is no piece
PLACEMENT_LETTER ==
    <<"4", "k", "3", "/", "8", "/", "8", "/", "8", "/", "8", "/", "8", "/",
      "8", "/", "4", "X", "3">>

\* "4k3/8/8/8/8/8/8/4K3?" : a character that is no letter or digit
PLACEMENT_SIGN ==
    <<"4", "k", "3", "/", "8", "/", "8", "/", "8", "/", "8", "/", "8", "/",
      "8", "/", "4", "K", "3", "?">>

\* "" : nothing
PLACEMENT_NONE ==
    <<>>

\* " w KQkq - 0 1" : canonical
TAIL_NEW_GAME ==
    <<" ", "w", " ", "K", "Q", "k", "q", " ", "-", " ", "0", " ", "1">>

\* " b - - 5 3" : canonical
TAIL_BLACK ==
    <<" ", "b", " ", "-", " ", "-", " ", "5", " ", "3">>

\* " w kq e6 0 2" : canonical
TAIL_EN_PASSANT ==
    <<" ", "w", " ", "k", "q", " ", "e", "6", " ", "0", " ", "2">>

\* " w - - 10 12" : canonical, with numbers of two digits
TAIL_TWO_DIGITS ==
    <<" ", "w", " ", "-", " ", "-", " ", "1", "0", " ", "1", "2">>

\* " w - - 0" : the fullmove number is missing
TAIL_NO_FULLMOVE ==
    <<" ", "w", " ", "-", " ", "-", " ", "0">>

\* " w - - x 1" : a letter for the halfmove clock
TAIL_NO_DIGIT ==
    <<" ", "w", " ", "-", " ", "-", " ", "x", " ", "1">>

\* " x - - 0 1" : a letter that is no side
TAIL_NO_SIDE ==
    <<" ", "x", " ", "-", " ", "-", " ", "0", " ", "1">>

\* "" : nothing after the placement
TAIL_NONE ==
    <<>>

\* the placements that place the 64 squares, rank by rank
WellFormedPlacements ==
    {PLACEMENT_NEW_GAME, PLACEMENT_ROOKS, PLACEMENT_KINGS}

Placements ==
    WellFormedPlacements \cup
    {PLACEMENT_TWO_RANKS, PLACEMENT_NINE_RANKS, PLACEMENT_SHORT_RANK,
     PLACEMENT_LONG_RANK, PLACEMENT_PAST_H8, PLACEMENT_LETTER,
     PLACEMENT_SIGN, PLACEMENT_NONE}

\* the canonical ways to write the other five fields
CanonicalTails ==
    {TAIL_NEW_GAME, TAIL_BLACK, TAIL_EN_PASSANT, TAIL_TWO_DIGITS}

Tails ==
    CanonicalTails \cup
    {TAIL_NO_FULLMOVE, TAIL_NO_DIGIT, TAIL_NO_SIDE, TAIL_NONE}

CanonicalFens ==
    {placement \o tail :
        placement \in WellFormedPlacements, tail \in CanonicalTails}

FenInputs == {placement \o tail : placement \in Placements, tail \in Tails}

\* the state a run starts from : Game::new and Game::fen on a string
FenInit ==
    /\ game = EmptyGame
    /\ mov = NoMov
    /\ result = "Idle"
    /\ calls = 0
    /\ board = EmptyBoard
    /\ board_result = "Idle"
    /\ board_events = <<>>
    /\ board_ply = 0
    /\ fen_checks \in BOOLEAN
    /\ fen_input = <<>>
    /\ fen_result = "Init"
    /\ fen_game = EmptyGame
    /\ fen_output = <<>>
    /\ perft_args = <<>>
    /\ perft_pc = "Idle"
    /\ perft_game = EmptyGame
    /\ perft_movs = <<>>
    /\ perft_sum = 0
    /\ path_a = EmptyGame
    /\ path_b = EmptyGame
    /\ path_moves = <<0, 0>>
    /\ play_kind = "Idle"
    /\ play_game = EmptyGame
    /\ play_movs = <<>>
    /\ mat_game = EmptyGame
    /\ mat_moves = 0
    /\ mat_result = "Idle"
    /\ pack_mov = NoMov
    /\ pack_encoded = -1
    /\ pack_decoded = Err("Idle")
    /\ key_feature = NoFeature
    /\ key_index = -1
    /\ att_board = EmptyBoard
    /\ att_square = -1
    /\ att_by_side = None
    /\ att_asked = FALSE
    /\ att_result = FALSE
    /\ ray_board = EmptyBoard
    /\ ray_square = -1
    /\ ray_direction = None
    /\ ray_asked = FALSE
    /\ ray_attacks = {}
    /\ pawn_board = EmptyBoard
    /\ pawn_from = -1
    /\ pawn_asked = FALSE
    /\ pawn_moves = {}
    /\ shift_set = {}
    /\ shift_direction = None
    /\ shift_result = {}
    /\ knight_square = -1
    /\ knight_asked = FALSE
    /\ knight_mask = {}
    /\ files_state = {}
    /\ files_asked = FALSE
    /\ files_result = <<>>
    /\ rep_host = NoStorage
    /\ rep_over = NoGameOver
    /\ rep_seen = <<>>
    /\ host = NoStorage
    /\ host_block = 0
    /\ host_result = "Idle"
    /\ host_engine = "Idle"
    /\ host_over = NoGameOver
    /\ host_event = NoEvent
    /\ host_calls = 0

\* Game::new on a string the caller chooses
New ==
    /\ fen_result = "Init"
    /\ \E fen \in FenInputs :
          \E res \in {Game_new(fen, fen_checks)} :
             /\ fen_input' = fen
             /\ fen_result' = res.tag
             /\ fen_game' = IF res.tag = "Ok" THEN res.game ELSE fen_game
    /\ UNCHANGED <<fen_checks, fen_output>>
    /\ UNCHANGED fenRest

\* Game::fen on the Game that Game::new returned
Fen ==
    /\ fen_result = "Ok"
    /\ fen_output = <<>>
    /\ fen_output' = Game_fen(fen_game)
    /\ UNCHANGED <<fen_checks, fen_input, fen_result, fen_game>>
    /\ UNCHANGED fenRest

FenNext == New \/ Fen

SpecFen == FenInit /\ [][FenNext]_vars

\* ------------------------------------------------------------------------
\* The perft program : main reads its arguments, takes the moves one by
\* one and prints the sum (perft.rs).
\* ------------------------------------------------------------------------
\* the depth arguments : 0 is the depth main rejects
MaxDepth == 3

\* "4k3/8/8/8/8/8/4P3/4K3 w - - 0 1"
FEN_PAWN ==
    <<"4", "k", "3", "/", "8", "/", "8", "/", "8", "/", "8", "/", "8", "/",
      "4", "P", "3", "/", "4", "K", "3", " ", "w", " ", "-", " ", "-", " ",
      "0", " ", "1">>

PerftFens == {FEN_NEW_GAME, FEN_PAWN}

\* the moves given after the fen argument : none, e2e4, e2e5
PerftMovs == {<<>>, <<Mov(12, 28, None)>>, <<Mov(12, 36, None)>>}

\* the state a run starts from : the perft program (perft.rs)
PerftInit ==
    /\ game = EmptyGame
    /\ mov = NoMov
    /\ result = "Idle"
    /\ calls = 0
    /\ board = EmptyBoard
    /\ board_result = "Idle"
    /\ board_events = <<>>
    /\ board_ply = 0
    /\ fen_checks = FALSE
    /\ fen_input = <<>>
    /\ fen_result = "Idle"
    /\ fen_game = EmptyGame
    /\ fen_output = <<>>
    /\ perft_args = <<>>
    /\ perft_pc = "Start"
    /\ perft_game = EmptyGame
    /\ perft_movs = <<>>
    /\ perft_sum = 0
    /\ path_a = EmptyGame
    /\ path_b = EmptyGame
    /\ path_moves = <<0, 0>>
    /\ play_kind = "Idle"
    /\ play_game = EmptyGame
    /\ play_movs = <<>>
    /\ mat_game = EmptyGame
    /\ mat_moves = 0
    /\ mat_result = "Idle"
    /\ pack_mov = NoMov
    /\ pack_encoded = -1
    /\ pack_decoded = Err("Idle")
    /\ key_feature = NoFeature
    /\ key_index = -1
    /\ att_board = EmptyBoard
    /\ att_square = -1
    /\ att_by_side = None
    /\ att_asked = FALSE
    /\ att_result = FALSE
    /\ ray_board = EmptyBoard
    /\ ray_square = -1
    /\ ray_direction = None
    /\ ray_asked = FALSE
    /\ ray_attacks = {}
    /\ pawn_board = EmptyBoard
    /\ pawn_from = -1
    /\ pawn_asked = FALSE
    /\ pawn_moves = {}
    /\ shift_set = {}
    /\ shift_direction = None
    /\ shift_result = {}
    /\ knight_square = -1
    /\ knight_asked = FALSE
    /\ knight_mask = {}
    /\ files_state = {}
    /\ files_asked = FALSE
    /\ files_result = <<>>
    /\ rep_host = NoStorage
    /\ rep_over = NoGameOver
    /\ rep_seen = <<>>
    /\ host = NoStorage
    /\ host_block = 0
    /\ host_result = "Idle"
    /\ host_engine = "Idle"
    /\ host_over = NoGameOver
    /\ host_event = NoEvent
    /\ host_calls = 0

\* main up to its loop : the arguments, Game::new and the moves to take
PerftStart ==
    /\ perft_pc = "Start"
    /\ \E depth \in 0..MaxDepth, fen \in PerftFens, movs \in PerftMovs :
          \E made \in {Game_new(fen, TRUE)} :
             /\ perft_args' = [depth |-> depth, fen |-> fen, movs |-> movs]
             /\ perft_sum' = 0
             /\ IF depth = 0
                THEN perft_pc' = "Panic" /\ UNCHANGED <<perft_game, perft_movs>>
                ELSE IF made.tag # "Ok"
                THEN perft_pc' = made.tag
                     /\ UNCHANGED <<perft_game, perft_movs>>
                ELSE IF movs = <<>> /\ legal_moves_panics(made.game)
                THEN perft_pc' = "Panic"
                     /\ UNCHANGED <<perft_game, perft_movs>>
                ELSE /\ perft_pc' = "Loop"
                     /\ perft_game' = made.game
                     /\ perft_movs' = IF movs # <<>> THEN movs
                                      ELSE main_movs(legal_moves(made.game))
    /\ UNCHANGED perftRest

\* one turn of the loop of main
PerftLoop ==
    /\ perft_pc = "Loop"
    /\ perft_movs # <<>>
    /\ \E made \in {make_move(perft_game, Head(perft_movs))} :
          \E n \in {IF made.tag # "Ok" THEN made
                    ELSE IF perft_args.depth > 1
                    THEN perft(made.game, perft_args.depth - 1)
                    ELSE [tag |-> "Ok", nodes |-> 1]} :
             IF n.tag # "Ok"
             THEN perft_pc' = n.tag /\ UNCHANGED <<perft_movs, perft_sum>>
             ELSE /\ perft_sum' = perft_sum + n.nodes
                  /\ perft_movs' = Tail(perft_movs)
                  /\ UNCHANGED perft_pc
    /\ UNCHANGED <<perft_args, perft_game>>
    /\ UNCHANGED perftRest

\* main after its loop : the sum is printed
PerftDone ==
    /\ perft_pc = "Loop"
    /\ perft_movs = <<>>
    /\ perft_pc' = "Done"
    /\ UNCHANGED <<perft_args, perft_game, perft_movs, perft_sum>>
    /\ UNCHANGED perftRest

PerftNext == PerftStart \/ PerftLoop \/ PerftDone

SpecPerft == PerftInit /\ [][PerftNext]_vars

\* ------------------------------------------------------------------------
\* Two callers that start from one Game and each keep the Game their own
\* accepted moves return (game.rs).
\* ------------------------------------------------------------------------
\* the number of accepted moves of each caller
MaxPathMoves == 4

\* "2r4k/8/8/3p4/2B5/2N5/7K/8 w - - 0 1" : a knight on c3 and a bishop on c4 that both
\* take on d5, a rook on c8 that takes either on the c file
FEN_PATHS ==
    <<"2", "r", "4", "k", "/", "8", "/", "8", "/", "3", "p", "4", "/", "2",
      "B", "5", "/", "2", "N", "5", "/", "7", "K", "/", "8", " ", "w", " ",
      "-", " ", "-", " ", "0", " ", "1">>

PathsGame == Game_new(FEN_PATHS, TRUE).game

\* the squares the callers move between : c1, c3, c4, d5, d6, c8
PathSquares == {2, 18, 26, 35, 43, 58}

\* the state a run starts from : two callers that start from one Game
PathsInit ==
    /\ game = EmptyGame
    /\ mov = NoMov
    /\ result = "Idle"
    /\ calls = 0
    /\ board = EmptyBoard
    /\ board_result = "Idle"
    /\ board_events = <<>>
    /\ board_ply = 0
    /\ fen_checks = FALSE
    /\ fen_input = <<>>
    /\ fen_result = "Idle"
    /\ fen_game = EmptyGame
    /\ fen_output = <<>>
    /\ perft_args = <<>>
    /\ perft_pc = "Idle"
    /\ perft_game = EmptyGame
    /\ perft_movs = <<>>
    /\ perft_sum = 0
    /\ path_a = PathsGame
    /\ path_b = PathsGame
    /\ path_moves = <<0, 0>>
    /\ play_kind = "Idle"
    /\ play_game = EmptyGame
    /\ play_movs = <<>>
    /\ mat_game = EmptyGame
    /\ mat_moves = 0
    /\ mat_result = "Idle"
    /\ pack_mov = NoMov
    /\ pack_encoded = -1
    /\ pack_decoded = Err("Idle")
    /\ key_feature = NoFeature
    /\ key_index = -1
    /\ att_board = EmptyBoard
    /\ att_square = -1
    /\ att_by_side = None
    /\ att_asked = FALSE
    /\ att_result = FALSE
    /\ ray_board = EmptyBoard
    /\ ray_square = -1
    /\ ray_direction = None
    /\ ray_asked = FALSE
    /\ ray_attacks = {}
    /\ pawn_board = EmptyBoard
    /\ pawn_from = -1
    /\ pawn_asked = FALSE
    /\ pawn_moves = {}
    /\ shift_set = {}
    /\ shift_direction = None
    /\ shift_result = {}
    /\ knight_square = -1
    /\ knight_asked = FALSE
    /\ knight_mask = {}
    /\ files_state = {}
    /\ files_asked = FALSE
    /\ files_result = <<>>
    /\ rep_host = NoStorage
    /\ rep_over = NoGameOver
    /\ rep_seen = <<>>
    /\ host = NoStorage
    /\ host_block = 0
    /\ host_result = "Idle"
    /\ host_engine = "Idle"
    /\ host_over = NoGameOver
    /\ host_event = NoEvent
    /\ host_calls = 0

\* Game::make_move by one of the two callers ; a caller keeps the Game an
\* accepted move returns, a rejected move changes nothing
PathMove ==
    \E who \in {1, 2}, from \in PathSquares, to \in PathSquares :
       /\ path_moves[who] < MaxPathMoves
       /\ \E res \in {make_move(IF who = 1 THEN path_a ELSE path_b,
                                 Mov(from, to, None))} :
             /\ res.tag = "Ok"
             /\ path_a' = IF who = 1 THEN res.game ELSE path_a
             /\ path_b' = IF who = 2 THEN res.game ELSE path_b
             /\ path_moves' = [path_moves EXCEPT ![who] = @ + 1]
       /\ UNCHANGED pathsRest

PathsNext == PathMove

SpecPaths == PathsInit /\ [][PathsNext]_vars

\* ------------------------------------------------------------------------
\* The contract as accounts call it while blocks pass (dotchess/lib.rs).
\* ------------------------------------------------------------------------
\* the number of make_move messages of a run
MaxHostCalls == 2

\* the last block number of a run
MaxBlock == 3

\* the blocks each side starts with
BlockBase == 2

\* the balance the contract holds
HostBalance == 980

\* the accounts : the two players and a third party
Accounts == {"Alice", "Bob", "Carol"}

HostFens == {FEN_NEW_GAME, FEN_CASTLING}

\* the contract after DotChess::from_fen at block 0, Alice playing White
HostStorages ==
    {DotChess_from_fen("Alice", "Bob", BlockBase, block_increment, fen, 0) :
        block_increment \in {0, 1}, fen \in HostFens}

\* the text of a move : file and rank of both squares, then the promotion
MoveText(from, to, promotion) ==
    <<file_into_char(FileOf(from)), DigitChars[RankOf(from) + 2],
      file_into_char(FileOf(to)), DigitChars[RankOf(to) + 2]>> \o
    (IF promotion = None THEN <<>> ELSE <<piece_into_char(promotion)>>)

\* texts that are not moves : "e2", "e2e9", "i2e4", "e7e8x", ""
BadMoveTexts ==
    {<<"e", "2">>, <<"e", "2", "e", "9">>, <<"i", "2", "e", "4">>,
     <<"e", "7", "e", "8", "x">>, <<>>}

\* the state a run starts from : the contract and its environment (dotchess/lib.rs)
HostInit ==
    /\ game = EmptyGame
    /\ mov = NoMov
    /\ result = "Idle"
    /\ calls = 0
    /\ board = EmptyBoard
    /\ board_result = "Idle"
    /\ board_events = <<>>
    /\ board_ply = 0
    /\ fen_checks = FALSE
    /\ fen_input = <<>>
    /\ fen_result = "Idle"
    /\ fen_game = EmptyGame
    /\ fen_output = <<>>
    /\ perft_args = <<>>
    /\ perft_pc = "Idle"
    /\ perft_game = EmptyGame
    /\ perft_movs = <<>>
    /\ perft_sum = 0
    /\ path_a = EmptyGame
    /\ path_b = EmptyGame
    /\ path_moves = <<0, 0>>
    /\ play_kind = "Idle"
    /\ play_game = EmptyGame
    /\ play_movs = <<>>
    /\ mat_game = EmptyGame
    /\ mat_moves = 0
    /\ mat_result = "Idle"
    /\ pack_mov = NoMov
    /\ pack_encoded = -1
    /\ pack_decoded = Err("Idle")
    /\ key_feature = NoFeature
    /\ key_index = -1
    /\ att_board = EmptyBoard
    /\ att_square = -1
    /\ att_by_side = None
    /\ att_asked = FALSE
    /\ att_result = FALSE
    /\ ray_board = EmptyBoard
    /\ ray_square = -1
    /\ ray_direction = None
    /\ ray_asked = FALSE
    /\ ray_attacks = {}
    /\ pawn_board = EmptyBoard
    /\ pawn_from = -1
    /\ pawn_asked = FALSE
    /\ pawn_moves = {}
    /\ shift_set = {}
    /\ shift_direction = None
    /\ shift_result = {}
    /\ knight_square = -1
    /\ knight_asked = FALSE
    /\ knight_mask = {}
    /\ files_state = {}
    /\ files_asked = FALSE
    /\ files_result = <<>>
    /\ rep_host = NoStorage
    /\ rep_over = NoGameOver
    /\ rep_seen = <<>>
    /\ host \in HostStorages
    /\ host_block = 0
    /\ host_result = "Init"
    /\ host_engine = "Init"
    /\ host_over = NoGameOver
    /\ host_event = NoEvent
    /\ host_calls = 0

\* the make_move message from one account ; a call that aborts leaves the
\* storage as it was, and a contract that was removed takes no message
HostMakeMove ==
    /\ host_over = NoGameOver
    /\ host_calls < MaxHostCalls
    /\ \E caller \in Accounts, from \in Squares :
          \E text \in {MoveText(from, to, None) : to \in Destinations(host.game, from)}
                       \cup BadMoveTexts :
             \E out \in {DotChess_make_move(
                              host,
                              [caller |-> caller, block |-> host_block,
                               balance |-> HostBalance],
                              text)} :
                /\ host' = IF out.result = "Panic" THEN host ELSE out.self
                /\ host_result' = out.result
                /\ host_engine' = out.engine
                /\ host_over' = out.over
                /\ host_event' = out.event
                /\ host_calls' = host_calls + 1
    /\ UNCHANGED host_block
    /\ UNCHANGED hostRest

\* env : a block passes
BlockPasses ==
    /\ host_block < MaxBlock
    /\ host_block' = host_block + 1
    /\ UNCHANGED <<host, host_result, host_engine, host_over, host_event,
                   host_calls>>
    /\ UNCHANGED hostRest

HostNext == HostMakeMove \/ BlockPasses

SpecHost == HostInit /\ [][HostNext]_vars

\* ------------------------------------------------------------------------
\* A caller that plays a line of moves : it holds a Game, presents moves
\* between the squares of the line, and keeps the Game every accepted move
\* returns (game.rs).
\* ------------------------------------------------------------------------
\* the accepted moves of the line of four moves from the starting position
MaxMateMoves == 4

\* the accepted moves of the line in which the knights go out and back
MaxShuffleMoves == 100

\* the accepted moves of the line in which kings and rooks leave and return
MaxReturnMoves == 4

\* the accepted moves of the line in which a knight steps on d2 after the
\* pawn of d2 has left it
MaxResidueMoves == 5

\* a white pawn on d2 that can take on e3, and a white knight on b1
FEN_RESIDUE ==
    <<"4", "k", "3", "/", "8", "/", "8", "/", "8", "/", "8", "/", "4", "p",
      "3", "/", "3", "P", "4", "/", "1", "N", "2", "K", "3", " ", "w", " ",
      "-", " ", "-", " ", "0", " ", "1">>

PlayKinds == {"Mate", "Shuffle", "Return", "Residue"}

\* the Game a line starts from
PlayStart(kind) ==
    IF kind = "Return" THEN Game_new(FEN_CASTLING, TRUE).game
    ELSE IF kind = "Residue" THEN Game_new(FEN_RESIDUE, TRUE).game
    ELSE Game_new(FEN_NEW_GAME, TRUE).game

\* the squares of a line : f2 f3 g2 g4 e7 e5 d8 h4 ; g1 f3 g8 f6 ;
\* a1 b1 e1 f1 g1 h1 a8 b8 e8 f8 ; b1 d2 e3 d4 d8 e8
PlaySquares(kind) ==
    CASE kind = "Mate" -> {13, 21, 14, 30, 52, 36, 59, 31}
      [] kind = "Shuffle" -> {6, 21, 62, 45}
      [] kind = "Return" -> {0, 1, 4, 5, 6, 7, 56, 57, 60, 61}
      [] kind = "Residue" -> {1, 11, 20, 27, 59, 60}

\* the number of accepted moves after which a line ends
PlayMax(kind) ==
    CASE kind = "Mate" -> MaxMateMoves
      [] kind = "Shuffle" -> MaxShuffleMoves
      [] kind = "Return" -> MaxReturnMoves
      [] kind = "Residue" -> MaxResidueMoves

\* the state a run starts from : a caller that plays a line of moves between given squares
PlayInit ==
    /\ game = EmptyGame
    /\ mov = NoMov
    /\ result = "Idle"
    /\ calls = 0
    /\ board = EmptyBoard
    /\ board_result = "Idle"
    /\ board_events = <<>>
    /\ board_ply = 0
    /\ fen_checks = FALSE
    /\ fen_input = <<>>
    /\ fen_result = "Idle"
    /\ fen_game = EmptyGame
    /\ fen_output = <<>>
    /\ perft_args = <<>>
    /\ perft_pc = "Idle"
    /\ perft_game = EmptyGame
    /\ perft_movs = <<>>
    /\ perft_sum = 0
    /\ path_a = EmptyGame
    /\ path_b = EmptyGame
    /\ path_moves = <<0, 0>>
    /\ play_kind \in PlayKinds
    /\ play_game = PlayStart(play_kind)
    /\ play_movs = <<>>
    /\ mat_game = EmptyGame
    /\ mat_moves = 0
    /\ mat_result = "Idle"
    /\ pack_mov = NoMov
    /\ pack_encoded = -1
    /\ pack_decoded = Err("Idle")
    /\ key_feature = NoFeature
    /\ key_index = -1
    /\ att_board = EmptyBoard
    /\ att_square = -1
    /\ att_by_side = None
    /\ att_asked = FALSE
    /\ att_result = FALSE
    /\ ray_board = EmptyBoard
    /\ ray_square = -1
    /\ ray_direction = None
    /\ ray_asked = FALSE
    /\ ray_attacks = {}
    /\ pawn_board = EmptyBoard
    /\ pawn_from = -1
    /\ pawn_asked = FALSE
    /\ pawn_moves = {}
    /\ shift_set = {}
    /\ shift_direction = None
    /\ shift_result = {}
    /\ knight_square = -1
    /\ knight_asked = FALSE
    /\ knight_mask = {}
    /\ files_state = {}
    /\ files_asked = FALSE
    /\ files_result = <<>>
    /\ rep_host = NoStorage
    /\ rep_over = NoGameOver
    /\ rep_seen = <<>>
    /\ host = NoStorage
    /\ host_block = 0
    /\ host_result = "Idle"
    /\ host_engine = "Idle"
    /\ host_over = NoGameOver
    /\ host_event = NoEvent
    /\ host_calls = 0

\* Game::make_move by the caller ; the caller keeps the Game an accepted
\* move returns, a rejected move changes nothing
PlayMove ==
    /\ Len(play_movs) < PlayMax(play_kind)
    /\ \E from \in PlaySquares(play_kind), to \in PlaySquares(play_kind) :
          \E res \in {make_move(play_game, Mov(from, to, None))} :
             /\ res.tag = "Ok"
             /\ play_game' = res.game
             /\ play_movs' = Append(play_movs, Mov(from, to, None))
    /\ UNCHANGED <<play_kind, playRest>>

PlayNext == PlayMove

SpecPlay == PlayInit /\ [][PlayNext]_vars

\* ------------------------------------------------------------------------
\* A caller that holds a Game of few pieces, makes at most one move in it
\* and asks whether its material can mate (game.rs).
\* ------------------------------------------------------------------------
\* the moves the caller makes before it asks
MaxMaterialMoves == 1

\* the pieces either side has besides its king, on e1 and on e8, at most
\* MaxExtraPieces of them
MaxExtraPieces == 2

\* b1 c1 a1 d1 d2 ; c8 b8 a3
WhiteExtras ==
    {Pc("White", "Knight", 1), Pc("White", "Bishop", 2),
     Pc("White", "Rook", 0), Pc("White", "Queen", 3), Pc("White", "Pawn", 11)}

BlackExtras ==
    {Pc("Black", "Bishop", 58), Pc("Black", "Knight", 57),
     Pc("Black", "Pawn", 16)}

\* the board set_piece builds from a set of pieces
RECURSIVE board_of(_)
board_of(placed) ==
    IF placed = {} THEN EmptyBoard
    ELSE LET p == CHOOSE q \in placed : TRUE
         IN  set_piece(board_of(placed \ {p}), p.side, p.piece, p.square)

\* the Game that Game::new returns for the pieces, White to move, no castling
\* right, no en passant file, clocks 0 and 1
game_of(placed) ==
    [board |-> board_of(placed),
     state |-> set_next_turn_side(ZeroState, "White"),
     zobrist |-> Xor(BoardZobrist(board_of(placed)),
                     StateZobrist(set_next_turn_side(ZeroState, "White"))),
     halfmove_clock |-> 0, fullmove_number |-> 1]

MaterialGames ==
    {game_of({Pc("White", "King", E1), Pc("Black", "King", E8)} \cup w \cup b) :
        w \in {x \in SUBSET WhiteExtras : Cardinality(x) <= MaxExtraPieces},
        b \in {x \in SUBSET BlackExtras : Cardinality(x) <= MaxExtraPieces}}

\* the state a run starts from : a caller that asks whether the material of a Game can mate
MaterialInit ==
    /\ game = EmptyGame
    /\ mov = NoMov
    /\ result = "Idle"
    /\ calls = 0
    /\ board = EmptyBoard
    /\ board_result = "Idle"
    /\ board_events = <<>>
    /\ board_ply = 0
    /\ fen_checks = FALSE
    /\ fen_input = <<>>
    /\ fen_result = "Idle"
    /\ fen_game = EmptyGame
    /\ fen_output = <<>>
    /\ perft_args = <<>>
    /\ perft_pc = "Idle"
    /\ perft_game = EmptyGame
    /\ perft_movs = <<>>
    /\ perft_sum = 0
    /\ path_a = EmptyGame
    /\ path_b = EmptyGame
    /\ path_moves = <<0, 0>>
    /\ play_kind = "Idle"
    /\ play_game = EmptyGame
    /\ play_movs = <<>>
    /\ mat_game \in MaterialGames
    /\ mat_moves = 0
    /\ mat_result = "Init"
    /\ pack_mov = NoMov
    /\ pack_encoded = -1
    /\ pack_decoded = Err("Idle")
    /\ key_feature = NoFeature
    /\ key_index = -1
    /\ att_board = EmptyBoard
    /\ att_square = -1
    /\ att_by_side = None
    /\ att_asked = FALSE
    /\ att_result = FALSE
    /\ ray_board = EmptyBoard
    /\ ray_square = -1
    /\ ray_direction = None
    /\ ray_asked = FALSE
    /\ ray_attacks = {}
    /\ pawn_board = EmptyBoard
    /\ pawn_from = -1
    /\ pawn_asked = FALSE
    /\ pawn_moves = {}
    /\ shift_set = {}
    /\ shift_direction = None
    /\ shift_result = {}
    /\ knight_square = -1
    /\ knight_asked = FALSE
    /\ knight_mask = {}
    /\ files_state = {}
    /\ files_asked = FALSE
    /\ files_result = <<>>
    /\ rep_host = NoStorage
    /\ rep_over = NoGameOver
    /\ rep_seen = <<>>
    /\ host = NoStorage
    /\ host_block = 0
    /\ host_result = "Idle"
    /\ host_engine = "Idle"
    /\ host_over = NoGameOver
    /\ host_event = NoEvent
    /\ host_calls = 0

\* Game::make_move before the question : the caller keeps the Game an
\* accepted move returns
MaterialMove ==
    /\ mat_result = "Init"
    /\ mat_moves < MaxMaterialMoves
    /\ \E from \in Squares :
          \E to \in Game_pseudo_legal_moves_from(mat_game, from) :
             \E res \in {make_move(mat_game, Mov(from, to, None))} :
                /\ res.tag = "Ok"
                /\ mat_game' = res.game
                /\ mat_moves' = mat_moves + 1
    /\ UNCHANGED <<mat_result, materialRest>>

\* Game::has_sufficient_mating_material on the Game the caller holds
MaterialAsk ==
    /\ mat_result = "Init"
    /\ mat_result' = IF has_sufficient_mating_material(mat_game) THEN "true"
                     ELSE "false"
    /\ UNCHANGED <<mat_game, mat_moves, materialRest>>

MaterialNext == MaterialMove \/ MaterialAsk

SpecMaterial == MaterialInit /\ [][MaterialNext]_vars

\* ------------------------------------------------------------------------
\* The contract while the account to move sends make_move, no block
\* passing : from the starting position three knights go out and back and
\* the e pawn is pushed ; from two endings of king and queen against king
\* every move is tried (dotchess/lib.rs).
\* ------------------------------------------------------------------------
\* the make_move messages of a run from the starting position
MaxRepMoves == 8

\* the make_move messages of a run from an ending
MaxEndingMoves == 2

\* the blocks each side starts with
RepBlockBase == 50

\* "7k/8/6K1/8/8/8/8/5Q2 w - - 0 1"
FEN_WHITE_QUEEN ==
    <<"7", "k", "/", "8", "/", "6", "K", "1", "/", "8", "/", "8", "/", "8",
      "/", "8", "/", "5", "Q", "2", " ", "w", " ", "-", " ", "-", " ", "0",
      " ", "1">>

\* "5q2/8/8/8/8/6k1/8/7K b - - 0 1"
FEN_BLACK_QUEEN ==
    <<"5", "q", "2", "/", "8", "/", "8", "/", "8", "/", "8", "/", "6", "k",
      "1", "/", "8", "/", "7", "K", " ", "b", " ", "-", " ", "-", " ", "0",
      " ", "1">>

\* the contract after DotChess::new at block 0, Alice playing White
RepStorage ==
    DotChess_from_fen("Alice", "Bob", RepBlockBase, 0, FEN_NEW_GAME, 0)

\* the contracts of the runs
RepStorages ==
    {RepStorage} \cup
    {DotChess_from_fen("Alice", "Bob", RepBlockBase, 0, fen, 0) :
        fen \in {FEN_WHITE_QUEEN, FEN_BLACK_QUEEN}}

\* the squares moves are tried between : b1 c3 g1 f3 e2 e3 g8 f6 from the
\* starting position, every square from an ending
RepSquares(first) ==
    IF first = RepStorage.game THEN {1, 18, 6, 21, 12, 20, 62, 45}
    ELSE Squares

\* the number of accepted moves after which a run ends
RepMax(first) ==
    IF first = RepStorage.game THEN MaxRepMoves ELSE MaxEndingMoves

\* the state a run starts from : the contract while two accounts move pieces out and back
RepInit ==
    /\ game = EmptyGame
    /\ mov = NoMov
    /\ result = "Idle"
    /\ calls = 0
    /\ board = EmptyBoard
    /\ board_result = "Idle"
    /\ board_events = <<>>
    /\ board_ply = 0
    /\ fen_checks = FALSE
    /\ fen_input = <<>>
    /\ fen_result = "Idle"
    /\ fen_game = EmptyGame
    /\ fen_output = <<>>
    /\ perft_args = <<>>
    /\ perft_pc = "Idle"
    /\ perft_game = EmptyGame
    /\ perft_movs = <<>>
    /\ perft_sum = 0
    /\ path_a = EmptyGame
    /\ path_b = EmptyGame
    /\ path_moves = <<0, 0>>
    /\ play_kind = "Idle"
    /\ play_game = EmptyGame
    /\ play_movs = <<>>
    /\ mat_game = EmptyGame
    /\ mat_moves = 0
    /\ mat_result = "Idle"
    /\ pack_mov = NoMov
    /\ pack_encoded = -1
    /\ pack_decoded = Err("Idle")
    /\ key_feature = NoFeature
    /\ key_index = -1
    /\ att_board = EmptyBoard
    /\ att_square = -1
    /\ att_by_side = None
    /\ att_asked = FALSE
    /\ att_result = FALSE
    /\ ray_board = EmptyBoard
    /\ ray_square = -1
    /\ ray_direction = None
    /\ ray_asked = FALSE
    /\ ray_attacks = {}
    /\ pawn_board = EmptyBoard
    /\ pawn_from = -1
    /\ pawn_asked = FALSE
    /\ pawn_moves = {}
    /\ shift_set = {}
    /\ shift_direction = None
    /\ shift_result = {}
    /\ knight_square = -1
    /\ knight_asked = FALSE
    /\ knight_mask = {}
    /\ files_state = {}
    /\ files_asked = FALSE
    /\ files_result = <<>>
    /\ rep_host \in RepStorages
    /\ rep_over = NoGameOver
    /\ rep_seen = <<rep_host.game>>
    /\ host = NoStorage
    /\ host_block = 0
    /\ host_result = "Idle"
    /\ host_engine = "Idle"
    /\ host_over = NoGameOver
    /\ host_event = NoEvent
    /\ host_calls = 0

\* the make_move message from the account whose turn it is, with a move the
\* engine accepts
RepMove ==
    /\ rep_over = NoGameOver
    /\ Len(rep_seen) <= RepMax(rep_seen[1])
    /\ \E from \in RepSquares(rep_seen[1]), to \in RepSquares(rep_seen[1]) :
          \E out \in {DotChess_make_move(
                          rep_host,
                          [caller |-> side_account(
                                         rep_host,
                                         side_next_in_turn(rep_host.game)),
                           block |-> 0, balance |-> HostBalance],
                          MoveText(from, to, None))},
             res \in {make_move(rep_host.game, Mov(from, to, None))} :
             /\ out.engine = "Ok"
             /\ out.result # "Panic"
             /\ rep_host' = out.self
             /\ rep_over' = out.over
             /\ rep_seen' = Append(rep_seen, res.game)
    /\ UNCHANGED repRest

RepNext == RepMove

SpecRep == RepInit /\ [][RepNext]_vars

\* ------------------------------------------------------------------------
\* A caller that packs a Mov and unpacks the number (board/mov.rs).
\* ------------------------------------------------------------------------
\* the promotions of the Movs : none and every piece
PackPromotions ==
    {None, "Pawn", "Knight", "Bishop", "Rook", "Queen", "King"}

PackMovs ==
    {Mov(from, to, promotion) :
        from \in Squares, to \in Squares, promotion \in PackPromotions}

\* the state a run starts from : a caller that packs a Mov and unpacks it (board/mov.rs)
PackInit ==
    /\ game = EmptyGame
    /\ mov = NoMov
    /\ result = "Idle"
    /\ calls = 0
    /\ board = EmptyBoard
    /\ board_result = "Idle"
    /\ board_events = <<>>
    /\ board_ply = 0
    /\ fen_checks = FALSE
    /\ fen_input = <<>>
    /\ fen_result = "Idle"
    /\ fen_game = EmptyGame
    /\ fen_output = <<>>
    /\ perft_args = <<>>
    /\ perft_pc = "Idle"
    /\ perft_game = EmptyGame
    /\ perft_movs = <<>>
    /\ perft_sum = 0
    /\ path_a = EmptyGame
    /\ path_b = EmptyGame
    /\ path_moves = <<0, 0>>
    /\ play_kind = "Idle"
    /\ play_game = EmptyGame
    /\ play_movs = <<>>
    /\ mat_game = EmptyGame
    /\ mat_moves = 0
    /\ mat_result = "Idle"
    /\ pack_mov \in PackMovs
    /\ pack_encoded = -1
    /\ pack_decoded = Err("Init")
    /\ key_feature = NoFeature
    /\ key_index = -1
    /\ att_board = EmptyBoard
    /\ att_square = -1
    /\ att_by_side = None
    /\ att_asked = FALSE
    /\ att_result = FALSE
    /\ ray_board = EmptyBoard
    /\ ray_square = -1
    /\ ray_direction = None
    /\ ray_asked = FALSE
    /\ ray_attacks = {}
    /\ pawn_board = EmptyBoard
    /\ pawn_from = -1
    /\ pawn_asked = FALSE
    /\ pawn_moves = {}
    /\ shift_set = {}
    /\ shift_direction = None
    /\ shift_result = {}
    /\ knight_square = -1
    /\ knight_asked = FALSE
    /\ knight_mask = {}
    /\ files_state = {}
    /\ files_asked = FALSE
    /\ files_result = <<>>
    /\ rep_host = NoStorage
    /\ rep_over = NoGameOver
    /\ rep_seen = <<>>
    /\ host = NoStorage
    /\ host_block = 0
    /\ host_result = "Idle"
    /\ host_engine = "Idle"
    /\ host_over = NoGameOver
    /\ host_event = NoEvent
    /\ host_calls = 0

\* Mov::encode on the Mov the caller holds
Encode ==
    /\ pack_encoded = -1
    /\ pack_encoded' = Mov_encode(pack_mov)
    /\ UNCHANGED <<pack_mov, pack_decoded, packRest>>

\* Mov::decode on the number Mov::encode returned
Decode ==
    /\ pack_encoded # -1
    /\ pack_decoded = Err("Init")
    /\ pack_decoded' = Mov_decode(pack_encoded)
    /\ UNCHANGED <<pack_mov, pack_encoded, packRest>>

PackNext == Encode \/ Decode

SpecPack == PackInit /\ [][PackNext]_vars

\* ------------------------------------------------------------------------
\* A caller that asks for the index of the key of one feature of a position
\* (zobrist.rs).
\* ------------------------------------------------------------------------

\* the features a hash is made of
KeyFeatures ==
    {[kind |-> "Piece", side |-> side, piece |-> piece, square |-> square] :
        side \in Sides, piece \in Pieces, square \in Squares}
    \cup {[kind |-> "EnPassant", file |-> file] : file \in 0..7}
    \cup {[kind |-> "QueenRight", side |-> side] : side \in Sides}
    \cup {[kind |-> "KingRight", side |-> side] : side \in Sides}
    \cup {[kind |-> "Turn"]}

\* the index the functions of ZobristHash give for a feature
hash_key_index(feature) ==
    CASE feature.kind = "Piece" ->
            get_piece_hash_key_index(feature.side, feature.piece,
                                     feature.square)
      [] feature.kind = "EnPassant" ->
            get_en_passant_hash_key_index(feature.file)
      [] feature.kind = "QueenRight" ->
            get_queen_castling_right_hash_key_index(feature.side)
      [] feature.kind = "KingRight" ->
            get_king_castling_right_hash_key_index(feature.side)
      [] feature.kind = "Turn" -> WHITE_TURN_HASH_KEY_INDEX

\* the state a run starts from : a caller that asks for the key index of a feature of a position (zobrist.rs)
KeyInit ==
    /\ game = EmptyGame
    /\ mov = NoMov
    /\ result = "Idle"
    /\ calls = 0
    /\ board = EmptyBoard
    /\ board_result = "Idle"
    /\ board_events = <<>>
    /\ board_ply = 0
    /\ fen_checks = FALSE
    /\ fen_input = <<>>
    /\ fen_result = "Idle"
    /\ fen_game = EmptyGame
    /\ fen_output = <<>>
    /\ perft_args = <<>>
    /\ perft_pc = "Idle"
    /\ perft_game = EmptyGame
    /\ perft_movs = <<>>
    /\ perft_sum = 0
    /\ path_a = EmptyGame
    /\ path_b = EmptyGame
    /\ path_moves = <<0, 0>>
    /\ play_kind = "Idle"
    /\ play_game = EmptyGame
    /\ play_movs = <<>>
    /\ mat_game = EmptyGame
    /\ mat_moves = 0
    /\ mat_result = "Idle"
    /\ pack_mov = NoMov
    /\ pack_encoded = -1
    /\ pack_decoded = Err("Idle")
    /\ key_feature \in KeyFeatures
    /\ key_index = -1
    /\ att_board = EmptyBoard
    /\ att_square = -1
    /\ att_by_side = None
    /\ att_asked = FALSE
    /\ att_result = FALSE
    /\ ray_board = EmptyBoard
    /\ ray_square = -1
    /\ ray_direction = None
    /\ ray_asked = FALSE
    /\ ray_attacks = {}
    /\ pawn_board = EmptyBoard
    /\ pawn_from = -1
    /\ pawn_asked = FALSE
    /\ pawn_moves = {}
    /\ shift_set = {}
    /\ shift_direction = None
    /\ shift_result = {}
    /\ knight_square = -1
    /\ knight_asked = FALSE
    /\ knight_mask = {}
    /\ files_state = {}
    /\ files_asked = FALSE
    /\ files_result = <<>>
    /\ rep_host = NoStorage
    /\ rep_over = NoGameOver
    /\ rep_seen = <<>>
    /\ host = NoStorage
    /\ host_block = 0
    /\ host_result = "Idle"
    /\ host_engine = "Idle"
    /\ host_over = NoGameOver
    /\ host_event = NoEvent
    /\ host_calls = 0

\* ZobristHash::get_*_hash_key_index on the feature the caller holds
KeyIndex ==
    /\ key_index = -1
    /\ key_index' = hash_key_index(key_feature)
    /\ UNCHANGED <<key_feature, keyRest>>

KeyNext == KeyIndex

SpecKey == KeyInit /\ [][KeyNext]_vars

\* ------------------------------------------------------------------------
\* A caller that asks whether a side attacks a square of a Board
\* (board/mod.rs).
\* ------------------------------------------------------------------------
\* where the one piece that may attack stands, and where a knight of either
\* side may stand in its way
AttackerSquares == {9, 27, 54}

BlockerSquares == {18, 29, 35, 36}

AttackBlockers ==
    {{}} \cup {{Pc(side, "Knight", square)} :
                  side \in Sides, square \in BlockerSquares}

\* Board::new positions : one piece of either side on one of three squares,
\* alone or with a knight beside it
AttackBoards ==
    {Board_new({Pc(side, piece, square)} \cup blockers, {12}, 0) :
        side \in Sides, piece \in Pieces, square \in AttackerSquares,
        blockers \in AttackBlockers}

\* the state a run starts from : a caller that asks whether a side attacks a square of a Board (board/mod.rs)
AttackInit ==
    /\ game = EmptyGame
    /\ mov = NoMov
    /\ result = "Idle"
    /\ calls = 0
    /\ board = EmptyBoard
    /\ board_result = "Idle"
    /\ board_events = <<>>
    /\ board_ply = 0
    /\ fen_checks = FALSE
    /\ fen_input = <<>>
    /\ fen_result = "Idle"
    /\ fen_game = EmptyGame
    /\ fen_output = <<>>
    /\ perft_args = <<>>
    /\ perft_pc = "Idle"
    /\ perft_game = EmptyGame
    /\ perft_movs = <<>>
    /\ perft_sum = 0
    /\ path_a = EmptyGame
    /\ path_b = EmptyGame
    /\ path_moves = <<0, 0>>
    /\ play_kind = "Idle"
    /\ play_game = EmptyGame
    /\ play_movs = <<>>
    /\ mat_game = EmptyGame
    /\ mat_moves = 0
    /\ mat_result = "Idle"
    /\ pack_mov = NoMov
    /\ pack_encoded = -1
    /\ pack_decoded = Err("Idle")
    /\ key_feature = NoFeature
    /\ key_index = -1
    /\ att_board \in AttackBoards
    /\ att_square \in Squares
    /\ att_by_side \in Sides
    /\ att_asked = FALSE
    /\ att_result = FALSE
    /\ ray_board = EmptyBoard
    /\ ray_square = -1
    /\ ray_direction = None
    /\ ray_asked = FALSE
    /\ ray_attacks = {}
    /\ pawn_board = EmptyBoard
    /\ pawn_from = -1
    /\ pawn_asked = FALSE
    /\ pawn_moves = {}
    /\ shift_set = {}
    /\ shift_direction = None
    /\ shift_result = {}
    /\ knight_square = -1
    /\ knight_asked = FALSE
    /\ knight_mask = {}
    /\ files_state = {}
    /\ files_asked = FALSE
    /\ files_result = <<>>
    /\ rep_host = NoStorage
    /\ rep_over = NoGameOver
    /\ rep_seen = <<>>
    /\ host = NoStorage
    /\ host_block = 0
    /\ host_result = "Idle"
    /\ host_engine = "Idle"
    /\ host_over = NoGameOver
    /\ host_event = NoEvent
    /\ host_calls = 0

\* Board::is_attacked on the square and the side the caller holds
IsAttacked ==
    /\ ~att_asked
    /\ att_asked' = TRUE
    /\ att_result' = is_attacked(att_board, att_square, att_by_side)
    /\ UNCHANGED <<att_board, att_square, att_by_side, attackRest>>

AttackNext == IsAttacked

SpecAttack == AttackInit /\ [][AttackNext]_vars

\* ------------------------------------------------------------------------
\* A caller that asks for the attacks along one ray of a Board
\* (board/mod.rs).
\* ------------------------------------------------------------------------
\* the squares that may be occupied : every subset of them is an occupancy
RayOccupiable == {9, 11, 25, 29, 31, 35, 45, 51}

\* Board::new positions : a white knight on each square of the occupancy
RayBoards ==
    {Board_new({Pc("White", "Knight", square) : square \in taken}, {12}, 0) :
        taken \in SUBSET RayOccupiable}

\* the state a run starts from : a caller that asks for the attacks along one ray of a Board (board/mod.rs)
RayInit ==
    /\ game = EmptyGame
    /\ mov = NoMov
    /\ result = "Idle"
    /\ calls = 0
    /\ board = EmptyBoard
    /\ board_result = "Idle"
    /\ board_events = <<>>
    /\ board_ply = 0
    /\ fen_checks = FALSE
    /\ fen_input = <<>>
    /\ fen_result = "Idle"
    /\ fen_game = EmptyGame
    /\ fen_output = <<>>
    /\ perft_args = <<>>
    /\ perft_pc = "Idle"
    /\ perft_game = EmptyGame
    /\ perft_movs = <<>>
    /\ perft_sum = 0
    /\ path_a = EmptyGame
    /\ path_b = EmptyGame
    /\ path_moves = <<0, 0>>
    /\ play_kind = "Idle"
    /\ play_game = EmptyGame
    /\ play_movs = <<>>
    /\ mat_game = EmptyGame
    /\ mat_moves = 0
    /\ mat_result = "Idle"
    /\ pack_mov = NoMov
    /\ pack_encoded = -1
    /\ pack_decoded = Err("Idle")
    /\ key_feature = NoFeature
    /\ key_index = -1
    /\ att_board = EmptyBoard
    /\ att_square = -1
    /\ att_by_side = None
    /\ att_asked = FALSE
    /\ att_result = FALSE
    /\ ray_board \in RayBoards
    /\ ray_square \in Squares
    /\ ray_direction \in Directions
    /\ ray_asked = FALSE
    /\ ray_attacks = {}
    /\ pawn_board = EmptyBoard
    /\ pawn_from = -1
    /\ pawn_asked = FALSE
    /\ pawn_moves = {}
    /\ shift_set = {}
    /\ shift_direction = None
    /\ shift_result = {}
    /\ knight_square = -1
    /\ knight_asked = FALSE
    /\ knight_mask = {}
    /\ files_state = {}
    /\ files_asked = FALSE
    /\ files_result = <<>>
    /\ rep_host = NoStorage
    /\ rep_over = NoGameOver
    /\ rep_seen = <<>>
    /\ host = NoStorage
    /\ host_block = 0
    /\ host_result = "Idle"
    /\ host_engine = "Idle"
    /\ host_over = NoGameOver
    /\ host_event = NoEvent
    /\ host_calls = 0

\* Board::get_ray_attacks on the origin and the direction the caller holds
RayAttacks ==
    /\ ~ray_asked
    /\ ray_asked' = TRUE
    /\ ray_attacks' = get_ray_attacks(ray_board, ray_square, ray_direction)
    /\ UNCHANGED <<ray_board, ray_square, ray_direction, rayRest>>

RayNext == RayAttacks

SpecRay == RayInit /\ [][RayNext]_vars

\* ------------------------------------------------------------------------
\* A caller that asks for the pseudo-legal destinations of a pawn
\* (board/mod.rs).
\* ------------------------------------------------------------------------
\* the square of the other side's half of the board, file kept
mirror(square) == FileOf(square) + 8 * (7 - RankOf(square))

of_side(side, square) == IF side = "White" THEN square ELSE mirror(square)

\* where the pawn of the side to move stands, and where one more piece of
\* either side may stand, both given for White and mirrored for Black
PawnSquares == {12, 36}

OtherSquares == {10, 20, 21, 28, 43, 44, 45}

OtherKinds == {"Pawn", "Knight"}

PawnFlags(side) ==
    {(IF side = "White" THEN {12} ELSE {}) \cup files : files \in {{}, {3}}}

\* Board::new positions : a pawn of the side to move, alone or with one
\* pawn or knight of either side, with file d open to en passant or not
PawnBoards ==
    {Board_new({Pc(side, "Pawn", of_side(side, square))} \cup others, flags, 0) :
        <<side, square, others, flags>> \in
           UNION {{<<side, square, others, flags>> :
                      square \in PawnSquares,
                      others \in {{}} \cup
                                 {{Pc(other, kind, of_side(side, at))} :
                                     other \in Sides, kind \in OtherKinds,
                                     at \in OtherSquares},
                      flags \in PawnFlags(side)} : side \in Sides}}

\* the pawns of the side to move
PawnOrigins(b) == get_pieces_by_side(b, get_side_turn(b)) \cap b.pawns

\* the state a run starts from : a caller that asks for the pseudo-legal destinations of a pawn (board/mod.rs)
PawnInit ==
    /\ game = EmptyGame
    /\ mov = NoMov
    /\ result = "Idle"
    /\ calls = 0
    /\ board = EmptyBoard
    /\ board_result = "Idle"
    /\ board_events = <<>>
    /\ board_ply = 0
    /\ fen_checks = FALSE
    /\ fen_input = <<>>
    /\ fen_result = "Idle"
    /\ fen_game = EmptyGame
    /\ fen_output = <<>>
    /\ perft_args = <<>>
    /\ perft_pc = "Idle"
    /\ perft_game = EmptyGame
    /\ perft_movs = <<>>
    /\ perft_sum = 0
    /\ path_a = EmptyGame
    /\ path_b = EmptyGame
    /\ path_moves = <<0, 0>>
    /\ play_kind = "Idle"
    /\ play_game = EmptyGame
    /\ play_movs = <<>>
    /\ mat_game = EmptyGame
    /\ mat_moves = 0
    /\ mat_result = "Idle"
    /\ pack_mov = NoMov
    /\ pack_encoded = -1
    /\ pack_decoded = Err("Idle")
    /\ key_feature = NoFeature
    /\ key_index = -1
    /\ att_board = EmptyBoard
    /\ att_square = -1
    /\ att_by_side = None
    /\ att_asked = FALSE
    /\ att_result = FALSE
    /\ ray_board = EmptyBoard
    /\ ray_square = -1
    /\ ray_direction = None
    /\ ray_asked = FALSE
    /\ ray_attacks = {}
    /\ pawn_board \in PawnBoards
    /\ pawn_from \in PawnOrigins(pawn_board)
    /\ pawn_asked = FALSE
    /\ pawn_moves = {}
    /\ shift_set = {}
    /\ shift_direction = None
    /\ shift_result = {}
    /\ knight_square = -1
    /\ knight_asked = FALSE
    /\ knight_mask = {}
    /\ files_state = {}
    /\ files_asked = FALSE
    /\ files_result = <<>>
    /\ rep_host = NoStorage
    /\ rep_over = NoGameOver
    /\ rep_seen = <<>>
    /\ host = NoStorage
    /\ host_block = 0
    /\ host_result = "Idle"
    /\ host_engine = "Idle"
    /\ host_over = NoGameOver
    /\ host_event = NoEvent
    /\ host_calls = 0

\* Board::get_pseudo_legal_moves_from on the pawn the caller holds
PawnMoves ==
    /\ ~pawn_asked
    /\ pawn_asked' = TRUE
    /\ pawn_moves' = get_pseudo_legal_moves_from(pawn_board, pawn_from)
    /\ UNCHANGED <<pawn_board, pawn_from, pawnRest>>

PawnNext == PawnMoves

SpecPawn == PawnInit /\ [][PawnNext]_vars

\* ------------------------------------------------------------------------
\* A caller that shifts a set of squares by one (board/bitboard.rs).
\* ------------------------------------------------------------------------
\* the most squares of a set the caller holds, the full board apart
MaxShiftSquares == 2

\* the sets the caller holds : the empty set, every set of one or two squares
\* and the full board
ShiftSets ==
    {bb \in {{first, second} : first, second \in Squares} \cup {EMPTY, FULL} :
        bb = FULL \/ Cardinality(bb) <= MaxShiftSquares}

\* the state a run starts from : a caller that shifts a set of squares by one (board/bitboard.rs)
ShiftInit ==
    /\ game = EmptyGame
    /\ mov = NoMov
    /\ result = "Idle"
    /\ calls = 0
    /\ board = EmptyBoard
    /\ board_result = "Idle"
    /\ board_events = <<>>
    /\ board_ply = 0
    /\ fen_checks = FALSE
    /\ fen_input = <<>>
    /\ fen_result = "Idle"
    /\ fen_game = EmptyGame
    /\ fen_output = <<>>
    /\ perft_args = <<>>
    /\ perft_pc = "Idle"
    /\ perft_game = EmptyGame
    /\ perft_movs = <<>>
    /\ perft_sum = 0
    /\ path_a = EmptyGame
    /\ path_b = EmptyGame
    /\ path_moves = <<0, 0>>
    /\ play_kind = "Idle"
    /\ play_game = EmptyGame
    /\ play_movs = <<>>
    /\ mat_game = EmptyGame
    /\ mat_moves = 0
    /\ mat_result = "Idle"
    /\ pack_mov = NoMov
    /\ pack_encoded = -1
    /\ pack_decoded = Err("Idle")
    /\ key_feature = NoFeature
    /\ key_index = -1
    /\ att_board = EmptyBoard
    /\ att_square = -1
    /\ att_by_side = None
    /\ att_asked = FALSE
    /\ att_result = FALSE
    /\ ray_board = EmptyBoard
    /\ ray_square = -1
    /\ ray_direction = None
    /\ ray_asked = FALSE
    /\ ray_attacks = {}
    /\ pawn_board = EmptyBoard
    /\ pawn_from = -1
    /\ pawn_asked = FALSE
    /\ pawn_moves = {}
    /\ shift_set \in ShiftSets
    /\ shift_direction = None
    /\ shift_result = {}
    /\ knight_square = -1
    /\ knight_asked = FALSE
    /\ knight_mask = {}
    /\ files_state = {}
    /\ files_asked = FALSE
    /\ files_result = <<>>
    /\ rep_host = NoStorage
    /\ rep_over = NoGameOver
    /\ rep_seen = <<>>
    /\ host = NoStorage
    /\ host_block = 0
    /\ host_result = "Idle"
    /\ host_engine = "Idle"
    /\ host_over = NoGameOver
    /\ host_event = NoEvent
    /\ host_calls = 0

\* the caller calls one of the eight operators, once, on the set it holds

\* BitBoard::north_one
NorthOne ==
    /\ shift_direction = None
    /\ shift_direction' = "North"
    /\ shift_result' = north_one(shift_set)
    /\ UNCHANGED <<shift_set, shiftRest>>

\* BitBoard::south_one
SouthOne ==
    /\ shift_direction = None
    /\ shift_direction' = "South"
    /\ shift_result' = south_one(shift_set)
    /\ UNCHANGED <<shift_set, shiftRest>>

\* BitBoard::east_one
EastOne ==
    /\ shift_direction = None
    /\ shift_direction' = "East"
    /\ shift_result' = east_one(shift_set)
    /\ UNCHANGED <<shift_set, shiftRest>>

\* BitBoard::north_east_one
NorthEastOne ==
    /\ shift_direction = None
    /\ shift_direction' = "NorthEast"
    /\ shift_result' = north_east_one(shift_set)
    /\ UNCHANGED <<shift_set, shiftRest>>

\* BitBoard::south_east_one
SouthEastOne ==
    /\ shift_direction = None
    /\ shift_direction' = "SouthEast"
    /\ shift_result' = south_east_one(shift_set)
    /\ UNCHANGED <<shift_set, shiftRest>>

\* BitBoard::west_one
WestOne ==
    /\ shift_direction = None
    /\ shift_direction' = "West"
    /\ shift_result' = west_one(shift_set)
    /\ UNCHANGED <<shift_set, shiftRest>>

\* BitBoard::south_west_one
SouthWestOne ==
    /\ shift_direction = None
    /\ shift_direction' = "SouthWest"
    /\ shift_result' = south_west_one(shift_set)
    /\ UNCHANGED <<shift_set, shiftRest>>

\* BitBoard::north_west_one
NorthWestOne ==
    /\ shift_direction = None
    /\ shift_direction' = "NorthWest"
    /\ shift_result' = north_west_one(shift_set)
    /\ UNCHANGED <<shift_set, shiftRest>>

ShiftNext ==
    \/ NorthOne
    \/ SouthOne
    \/ EastOne
    \/ NorthEastOne
    \/ SouthEastOne
    \/ WestOne
    \/ SouthWestOne
    \/ NorthWestOne

SpecShift == ShiftInit /\ [][ShiftNext]_vars

\* ------------------------------------------------------------------------
\* A caller that asks for the knight mask of a square, computed from the
\* table of offsets (dot_chess/board/bitboard.rs).
\* ------------------------------------------------------------------------
LENGTH == 64

KNIGHT_ATTACKS == <<6, 15, 17, 10, -6, -15, -17, -10>>

\* the squares at the offsets of the table that are indices of a square :
\* the sum is an i8, at most 63 + 17, and is tested against 0 and LENGTH only
knight_attacks_mask_of_offsets(square_index) ==
    UNION {LET sum == square_index + KNIGHT_ATTACKS[n]
           IN  IF sum >= LENGTH THEN EMPTY
               ELSE IF sum < 0 THEN EMPTY
               ELSE {sum} : n \in DOMAIN KNIGHT_ATTACKS}

\* the state a run starts from : a caller that asks for the knight mask of a square (dot_chess/board/bitboard.rs)
KnightInit ==
    /\ game = EmptyGame
    /\ mov = NoMov
    /\ result = "Idle"
    /\ calls = 0
    /\ board = EmptyBoard
    /\ board_result = "Idle"
    /\ board_events = <<>>
    /\ board_ply = 0
    /\ fen_checks = FALSE
    /\ fen_input = <<>>
    /\ fen_result = "Idle"
    /\ fen_game = EmptyGame
    /\ fen_output = <<>>
    /\ perft_args = <<>>
    /\ perft_pc = "Idle"
    /\ perft_game = EmptyGame
    /\ perft_movs = <<>>
    /\ perft_sum = 0
    /\ path_a = EmptyGame
    /\ path_b = EmptyGame
    /\ path_moves = <<0, 0>>
    /\ play_kind = "Idle"
    /\ play_game = EmptyGame
    /\ play_movs = <<>>
    /\ mat_game = EmptyGame
    /\ mat_moves = 0
    /\ mat_result = "Idle"
    /\ pack_mov = NoMov
    /\ pack_encoded = -1
    /\ pack_decoded = Err("Idle")
    /\ key_feature = NoFeature
    /\ key_index = -1
    /\ att_board = EmptyBoard
    /\ att_square = -1
    /\ att_by_side = None
    /\ att_asked = FALSE
    /\ att_result = FALSE
    /\ ray_board = EmptyBoard
    /\ ray_square = -1
    /\ ray_direction = None
    /\ ray_asked = FALSE
    /\ ray_attacks = {}
    /\ pawn_board = EmptyBoard
    /\ pawn_from = -1
    /\ pawn_asked = FALSE
    /\ pawn_moves = {}
    /\ shift_set = {}
    /\ shift_direction = None
    /\ shift_result = {}
    /\ knight_square \in Squares
    /\ knight_asked = FALSE
    /\ knight_mask = {}
    /\ files_state = {}
    /\ files_asked = FALSE
    /\ files_result = <<>>
    /\ rep_host = NoStorage
    /\ rep_over = NoGameOver
    /\ rep_seen = <<>>
    /\ host = NoStorage
    /\ host_block = 0
    /\ host_result = "Idle"
    /\ host_engine = "Idle"
    /\ host_over = NoGameOver
    /\ host_event = NoEvent
    /\ host_calls = 0

\* BitBoard::knight_attacks_mask of the table of offsets on the square the
\* caller holds
KnightAttacksMask ==
    /\ ~knight_asked
    /\ knight_asked' = TRUE
    /\ knight_mask' = knight_attacks_mask_of_offsets(knight_square)
    /\ UNCHANGED <<knight_square, knightRest>>

KnightNext == KnightAttacksMask

SpecKnight == KnightInit /\ [][KnightNext]_vars

\* ------------------------------------------------------------------------
\* A caller that asks a State for its open en passant files (game.rs).
\* ------------------------------------------------------------------------
\* every value of the low byte of the flags, the high byte empty
FilesStates == SUBSET (0..7)

\* the state a run starts from : a caller that asks a State for its open en passant files (game.rs)
FilesInit ==
    /\ game = EmptyGame
    /\ mov = NoMov
    /\ result = "Idle"
    /\ calls = 0
    /\ board = EmptyBoard
    /\ board_result = "Idle"
    /\ board_events = <<>>
    /\ board_ply = 0
    /\ fen_checks = FALSE
    /\ fen_input = <<>>
    /\ fen_result = "Idle"
    /\ fen_game = EmptyGame
    /\ fen_output = <<>>
    /\ perft_args = <<>>
    /\ perft_pc = "Idle"
    /\ perft_game = EmptyGame
    /\ perft_movs = <<>>
    /\ perft_sum = 0
    /\ path_a = EmptyGame
    /\ path_b = EmptyGame
    /\ path_moves = <<0, 0>>
    /\ play_kind = "Idle"
    /\ play_game = EmptyGame
    /\ play_movs = <<>>
    /\ mat_game = EmptyGame
    /\ mat_moves = 0
    /\ mat_result = "Idle"
    /\ pack_mov = NoMov
    /\ pack_encoded = -1
    /\ pack_decoded = Err("Idle")
    /\ key_feature = NoFeature
    /\ key_index = -1
    /\ att_board = EmptyBoard
    /\ att_square = -1
    /\ att_by_side = None
    /\ att_asked = FALSE
    /\ att_result = FALSE
    /\ ray_board = EmptyBoard
    /\ ray_square = -1
    /\ ray_direction = None
    /\ ray_asked = FALSE
    /\ ray_attacks = {}
    /\ pawn_board = EmptyBoard
    /\ pawn_from = -1
    /\ pawn_asked = FALSE
    /\ pawn_moves = {}
    /\ shift_set = {}
    /\ shift_direction = None
    /\ shift_result = {}
    /\ knight_square = -1
    /\ knight_asked = FALSE
    /\ knight_mask = {}
    /\ files_state \in FilesStates
    /\ files_asked = FALSE
    /\ files_result = <<>>
    /\ rep_host = NoStorage
    /\ rep_over = NoGameOver
    /\ rep_seen = <<>>
    /\ host = NoStorage
    /\ host_block = 0
    /\ host_result = "Idle"
    /\ host_engine = "Idle"
    /\ host_over = NoGameOver
    /\ host_event = NoEvent
    /\ host_calls = 0

\* State::en_passant_open_files on the State the caller holds : the unwrap
\* of File::try_from aborts the call on a value that is no file
EnPassantOpenFiles ==
    /\ ~files_asked
    /\ files_asked' = TRUE
    /\ files_result' = IF en_passant_open_files_panics(files_state)
                       THEN "Panic"
                       ELSE en_passant_open_files(files_state)
    /\ UNCHANGED <<files_state, filesRest>>

FilesNext == EnPassantOpenFiles

SpecFiles == FilesInit /\ [][FilesNext]_vars

\* ------------------------------------------------------------------------
\* The engine from a Game one move away from a mate and a stalemate.
\* ------------------------------------------------------------------------
\* king and queen against king : Qf8 mates and Qf7 stalemates
EndingGames == {Game_new(FEN_WHITE_QUEEN, TRUE).game}

\* the state a run starts from : a Game of the engine's runs, or one a move away from a mate and a stalemate
EndingInit ==
    /\ game \in InitialGames \cup EndingGames
    /\ mov = NoMov
    /\ result = "Init"
    /\ calls = 0
    /\ board = EmptyBoard
    /\ board_result = "Idle"
    /\ board_events = <<>>
    /\ board_ply = 0
    /\ fen_checks = FALSE
    /\ fen_input = <<>>
    /\ fen_result = "Idle"
    /\ fen_game = EmptyGame
    /\ fen_output = <<>>
    /\ perft_args = <<>>
    /\ perft_pc = "Idle"
    /\ perft_game = EmptyGame
    /\ perft_movs = <<>>
    /\ perft_sum = 0
    /\ path_a = EmptyGame
    /\ path_b = EmptyGame
    /\ path_moves = <<0, 0>>
    /\ play_kind = "Idle"
    /\ play_game = EmptyGame
    /\ play_movs = <<>>
    /\ mat_game = EmptyGame
    /\ mat_moves = 0
    /\ mat_result = "Idle"
    /\ pack_mov = NoMov
    /\ pack_encoded = -1
    /\ pack_decoded = Err("Idle")
    /\ key_feature = NoFeature
    /\ key_index = -1
    /\ att_board = EmptyBoard
    /\ att_square = -1
    /\ att_by_side = None
    /\ att_asked = FALSE
    /\ att_result = FALSE
    /\ ray_board = EmptyBoard
    /\ ray_square = -1
    /\ ray_direction = None
    /\ ray_asked = FALSE
    /\ ray_attacks = {}
    /\ pawn_board = EmptyBoard
    /\ pawn_from = -1
    /\ pawn_asked = FALSE
    /\ pawn_moves = {}
    /\ shift_set = {}
    /\ shift_direction = None
    /\ shift_result = {}
    /\ knight_square = -1
    /\ knight_asked = FALSE
    /\ knight_mask = {}
    /\ files_state = {}
    /\ files_asked = FALSE
    /\ files_result = <<>>
    /\ rep_host = NoStorage
    /\ rep_over = NoGameOver
    /\ rep_seen = <<>>
    /\ host = NoStorage
    /\ host_block = 0
    /\ host_result = "Idle"
    /\ host_engine = "Idle"
    /\ host_over = NoGameOver
    /\ host_event = NoEvent
    /\ host_calls = 0

SpecEnding == EndingInit /\ [][EngineNext]_vars

\* ------------------------------------------------------------------------
\* The engine from a Game with the four rights in which a rook, a bishop and
\* a pawn of each side can take a rook in a corner.
\* ------------------------------------------------------------------------
\* "r3k2r/6P1/8/3B4/4b3/8/1p6/R3K2R w KQkq - 0 1"
FEN_CORNERS_WHITE ==
    <<"r", "3", "k", "2", "r", "/", "6", "P", "1", "/", "8", "/", "3", "B",
      "4", "/", "4", "b", "3", "/", "8", "/", "1", "p", "6", "/", "R", "3",
      "K", "2", "R", " ", "w", " ", "K", "Q", "k", "q", " ", "-", " ", "0",
      " ", "1">>

\* "r3k2r/6P1/8/3B4/4b3/8/1p6/R3K2R b KQkq - 0 1"
FEN_CORNERS_BLACK ==
    <<"r", "3", "k", "2", "r", "/", "6", "P", "1", "/", "8", "/", "3", "B",
      "4", "/", "4", "b", "3", "/", "8", "/", "1", "p", "6", "/", "R", "3",
      "K", "2", "R", " ", "b", " ", "K", "Q", "k", "q", " ", "-", " ", "0",
      " ", "1">>

CornerGames ==
    {Game_new(fen, TRUE).game : fen \in {FEN_CORNERS_WHITE, FEN_CORNERS_BLACK}}

\* the state a run starts from : a Game with the four rights and takers of the rooks in the corners
CornersInit ==
    /\ game \in CornerGames
    /\ mov = NoMov
    /\ result = "Init"
    /\ calls = 0
    /\ board = EmptyBoard
    /\ board_result = "Idle"
    /\ board_events = <<>>
    /\ board_ply = 0
    /\ fen_checks = FALSE
    /\ fen_input = <<>>
    /\ fen_result = "Idle"
    /\ fen_game = EmptyGame
    /\ fen_output = <<>>
    /\ perft_args = <<>>
    /\ perft_pc = "Idle"
    /\ perft_game = EmptyGame
    /\ perft_movs = <<>>
    /\ perft_sum = 0
    /\ path_a = EmptyGame
    /\ path_b = EmptyGame
    /\ path_moves = <<0, 0>>
    /\ play_kind = "Idle"
    /\ play_game = EmptyGame
    /\ play_movs = <<>>
    /\ mat_game = EmptyGame
    /\ mat_moves = 0
    /\ mat_result = "Idle"
    /\ pack_mov = NoMov
    /\ pack_encoded = -1
    /\ pack_decoded = Err("Idle")
    /\ key_feature = NoFeature
    /\ key_index = -1
    /\ att_board = EmptyBoard
    /\ att_square = -1
    /\ att_by_side = None
    /\ att_asked = FALSE
    /\ att_result = FALSE
    /\ ray_board = EmptyBoard
    /\ ray_square = -1
    /\ ray_direction = None
    /\ ray_asked = FALSE
    /\ ray_attacks = {}
    /\ pawn_board = EmptyBoard
    /\ pawn_from = -1
    /\ pawn_asked = FALSE
    /\ pawn_moves = {}
    /\ shift_set = {}
    /\ shift_direction = None
    /\ shift_result = {}
    /\ knight_square = -1
    /\ knight_asked = FALSE
    /\ knight_mask = {}
    /\ files_state = {}
    /\ files_asked = FALSE
    /\ files_result = <<>>
    /\ rep_host = NoStorage
    /\ rep_over = NoGameOver
    /\ rep_seen = <<>>
    /\ host = NoStorage
    /\ host_block = 0
    /\ host_result = "Idle"
    /\ host_engine = "Idle"
    /\ host_over = NoGameOver
    /\ host_event = NoEvent
    /\ host_calls = 0

SpecCorners == CornersInit /\ [][EngineNext]_vars

\* ------------------------------------------------------------------------
\* The contract on a Game in which a king takes the last piece that is no
\* king (dotchess/lib.rs).
\* ------------------------------------------------------------------------
\* "7k/8/8/8/8/8/6q1/7K w - - 0 1" : the king of h1 is in check and takes the queen
FEN_QUEEN_TAKEN ==
    <<"7", "k", "/", "8", "/", "8", "/", "8", "/", "8", "/", "8", "/", "6",
      "q", "1", "/", "7", "K", " ", "w", " ", "-", " ", "-", " ", "0", " ",
      "1">>

\* the contract after DotChess::from_fen at block 0, Alice playing White :
\* the queen that is taken, and a queen that is not
TakingStorages ==
    {DotChess_from_fen("Alice", "Bob", BlockBase, 0, fen, 0) :
        fen \in {FEN_QUEEN_TAKEN, FEN_WHITE_QUEEN}}

\* the state a run starts from : the contract on a Game in which the last piece that is no king can be taken
TakingInit ==
    /\ game = EmptyGame
    /\ mov = NoMov
    /\ result = "Idle"
    /\ calls = 0
    /\ board = EmptyBoard
    /\ board_result = "Idle"
    /\ board_events = <<>>
    /\ board_ply = 0
    /\ fen_checks = FALSE
    /\ fen_input = <<>>
    /\ fen_result = "Idle"
    /\ fen_game = EmptyGame
    /\ fen_output = <<>>
    /\ perft_args = <<>>
    /\ perft_pc = "Idle"
    /\ perft_game = EmptyGame
    /\ perft_movs = <<>>
    /\ perft_sum = 0
    /\ path_a = EmptyGame
    /\ path_b = EmptyGame
    /\ path_moves = <<0, 0>>
    /\ play_kind = "Idle"
    /\ play_game = EmptyGame
    /\ play_movs = <<>>
    /\ mat_game = EmptyGame
    /\ mat_moves = 0
    /\ mat_result = "Idle"
    /\ pack_mov = NoMov
    /\ pack_encoded = -1
    /\ pack_decoded = Err("Idle")
    /\ key_feature = NoFeature
    /\ key_index = -1
    /\ att_board = EmptyBoard
    /\ att_square = -1
    /\ att_by_side = None
    /\ att_asked = FALSE
    /\ att_result = FALSE
    /\ ray_board = EmptyBoard
    /\ ray_square = -1
    /\ ray_direction = None
    /\ ray_asked = FALSE
    /\ ray_attacks = {}
    /\ pawn_board = EmptyBoard
    /\ pawn_from = -1
    /\ pawn_asked = FALSE
    /\ pawn_moves = {}
    /\ shift_set = {}
    /\ shift_direction = None
    /\ shift_result = {}
    /\ knight_square = -1
    /\ knight_asked = FALSE
    /\ knight_mask = {}
    /\ files_state = {}
    /\ files_asked = FALSE
    /\ files_result = <<>>
    /\ rep_host = NoStorage
    /\ rep_over = NoGameOver
    /\ rep_seen = <<>>
    /\ host \in TakingStorages
    /\ host_block = 0
    /\ host_result = "Init"
    /\ host_engine = "Init"
    /\ host_over = NoGameOver
    /\ host_event = NoEvent
    /\ host_calls = 0

SpecTaking == TakingInit /\ [][HostNext]_vars

\* ------------------------------------------------------------------------
\* Castling wings, for the properties below
\* ------------------------------------------------------------------------
Wings == {"King", "Queen"}

\* whether the state holds the castling right of the side on the wing
holds_right(state, side, wing) ==
    IF wing = "King" THEN king_side_castling_right(state, side)
    ELSE queen_side_castling_right(state, side)

\* the original squares of the king and of the rook of a wing
king_origin(side) == IF side = "White" THEN E1 ELSE E8

rook_origin(side, wing) ==
    IF side = "White" THEN (IF wing = "King" THEN H1 ELSE A1)
    ELSE (IF wing = "King" THEN H8 ELSE A8)

\* ------------------------------------------------------------------------
\* Properties of the Board layer (SpecBoard)
\* ------------------------------------------------------------------------
\* whether the king of the side stands on a square a piece of the other
\* side attacks, by the rules of chess
king_attacked(b, side) ==
    \E king \in get_pieces_by_side(b, side) \cap b.kings :
        attacked_by(b, king, flip(side))

kind_sets(b) == <<b.pawns, b.knights, b.bishops, b.rooks, b.queens, b.kings>>

\* C4 : white and black are disjoint, the six piece-kind sets are pairwise
\* disjoint, and their union is white union black, in every Board reached
\* by accepted moves
BoardStructure ==
    /\ board.white \cap board.black = {}
    /\ \A i, j \in 1..6 : i # j => kind_sets(board)[i] \cap kind_sets(board)[j] = {}
    /\ UNION {kind_sets(board)[i] : i \in 1..6} = board.white \cup board.black


\* the squares of the king of the side before and after a ply in which it
\* went two files along its rank, which only castling does
castling_steps(b, b2, side) ==
    {<<k, k2>> \in (get_pieces_by_side(b, side) \cap b.kings)
                    \X (get_pieces_by_side(b2, side) \cap b2.kings) :
        /\ RankOf(k) = RankOf(k2)
        /\ FileOf(k2) - FileOf(k) \in {-2, 2}}

\* C12 : a castling ply is accepted only when the square of the king, the
\* square it passes and the square it lands on are not attacked by the
\* other side
CastlingSafety ==
    [][board_result' = "Ok" /\ board_ply' = board_ply + 1
          => \A step \in castling_steps(board, board', get_side_turn(board)) :
                \A s \in {step[1], (step[1] + step[2]) \div 2, step[2]} :
                   ~attacked_by(board, s, flip(get_side_turn(board)))]_vars

\* the squares between a king on square k and the rook of the wing of the
\* target t
castling_between(k, t) ==
    IF FileOf(t) > FileOf(k) THEN {s \in Squares : k < s /\ s < k + 3}
    ELSE {s \in Squares : k - 4 < s /\ s < k}

\* C13 : a square two files from the king is in the pseudo-legal set of the
\* king only if the king stands on e1 or e8 and every square between the
\* king and the rook of that wing is empty
CastlingPath ==
    \A k \in board.kings \cap occupied(board) :
        ~get_pseudo_legal_moves_from_panics(board, k) =>
            \A t \in get_pseudo_legal_moves_from(board, k) :
                (RankOf(t) = RankOf(k) /\ FileOf(t) - FileOf(k) \in {-2, 2})
                    => /\ k \in {E1, E8}
                       /\ castling_between(k, t) \cap occupied(board) = {}

\* C15 : an accepted ply that captures on the original square of a rook of
\* the other side, while the other side holds the castling right of that
\* wing, is followed by a Board that does not hold that right
CapturedRookRight ==
    [][board_result' = "Ok" /\ board_ply' = board_ply + 1
          => \A wing \in Wings :
                LET side == get_side_turn(board)
                    square == rook_origin(flip(side), wing)
                IN  (/\ square \in get_pieces_by_side(board, flip(side))
                     /\ square \in get_pieces_by_side(board', side)
                     /\ holds_right(board.flags, flip(side), wing))
                       => ~holds_right(board'.flags, flip(side), wing)]_vars

\* whether the accepted ply from Board b to Board b2 by the side moved a
\* pawn, and whether it captured
pawn_moved(b, b2, side) ==
    \E square \in get_pieces_by_side(b, side) \ get_pieces_by_side(b2, side) :
        get_piece_at(b, square).piece = "Pawn"

piece_captured(b, b2, side) ==
    Cardinality(get_pieces_by_side(b2, flip(side)))
        < Cardinality(get_pieces_by_side(b, flip(side)))

\* C16 : after an accepted ply the halfmove clock is 0 if the ply moved a
\* pawn or captured, and the clock before the ply plus 1 otherwise
HalfmoveClock ==
    [][board_result' = "Ok" /\ board_ply' = board_ply + 1
          => board'.halfmove_clock =
                IF \/ pawn_moved(board, board', get_side_turn(board))
                   \/ piece_captured(board, board', get_side_turn(board))
                THEN 0
                ELSE board.halfmove_clock + 1]_vars
\* ------------------------------------------------------------------------
\* Properties of the engine (Spec)
\* ------------------------------------------------------------------------
\* the hash Game::new computes for a board and a state
scratch_zobrist(g) == Xor(BoardZobrist(g.board), StateZobrist(g.state))

\* C2 : the hash a Game carries, maintained move by move, is the hash
\* computed from scratch for its board and its state
HashConsistency ==
    ZobristHash_value(game.zobrist) = ZobristHash_value(scratch_zobrist(game))

\* whether the move needs a promotion piece and carries none
promotion_missing(g, m) ==
    /\ is_pawn(g.board, m.from)
    /\ m.to \in Game_pseudo_legal_moves_from(g, m.from)
    /\ RankOf(m.to) \in {7, 0}
    /\ m.promotion = None

\* whether the origin of the move is empty or holds a piece of the side
\* that is not to move, or the promotion piece it needs is missing
invalid_argument(g, m) ==
    \/ piece_at(g.board, m.from) = NoPiece
    \/ piece_at(g.board, m.from).side # next_turn_side(g.state)
    \/ promotion_missing(g, m)

\* whether the move, made on the board, leaves the king of the side to
\* move attacked
leaves_king_attacked(g, m) ==
    /\ make_pseudo_legal_move(g, m).tag = "Ok"
    /\ king_attacked(make_pseudo_legal_move(g, m).board,
                     next_turn_side(g.state))

\* C6 : make_move fails with InvalidArgument on an empty origin, on an
\* origin of the side not to move and on a missing promotion piece, and
\* with IllegalMove on a destination outside the pseudo-legal set of the
\* origin piece and on a move that leaves the mover's king attacked
ErrorClassification ==
    [][calls' = calls + 1 =>
          /\ invalid_argument(game, mov') => result' = "InvalidArgument"
          /\ ~invalid_argument(game, mov')
                /\ (\/ mov'.to \notin Game_pseudo_legal_moves_from(game,
                                                                  mov'.from)
                    \/ leaves_king_attacked(game, mov'))
                => result' = "IllegalMove"]_vars


\* C17 : an accepted move flips the side to move, and the fullmove number
\* grows by 1 after a move of Black and stays after a move of White
TurnAlternation ==
    [][calls' = calls + 1 /\ result' = "Ok"
          => /\ next_turn_side(game'.state) = flip(next_turn_side(game.state))
             /\ game'.fullmove_number =
                   IF next_turn_side(game.state) = "Black"
                   THEN game.fullmove_number + 1
                   ELSE game.fullmove_number]_vars

\* White and then Black have moved from the starting position : White is to
\* move again in the second move
TurnAlternationWitness ==
    /\ calls = 2
    /\ result = "Ok"
    /\ Cardinality(occupied(game.board)) = 32
    /\ RankOf(mov.from) \in {6, 7}
    /\ next_turn_side(game.state) = "White"
    /\ game.fullmove_number = 2

\* whether the move takes a pawn of the side to move to a pseudo-legal
\* destination on the farthest rank
pawn_reaches_farthest_rank(g, m) ==
    /\ piece_at(g.board, m.from) = [side |-> next_turn_side(g.state),
                                    piece |-> "Pawn"]
    /\ m.to \in Game_pseudo_legal_moves_from(g, m.from)
    /\ RankOf(m.to) = IF next_turn_side(g.state) = "White" THEN 7 ELSE 0

\* the accepted move took the piece from its origin and left the chosen
\* piece of the mover's side on the destination
promoted_to_choice(g, m, g2) ==
    /\ piece_at(g2.board, m.from) = NoPiece
    /\ piece_at(g2.board, m.to) = [side |-> next_turn_side(g.state),
                                   piece |-> m.promotion]

\* C19 : a pawn move to the farthest rank fails with InvalidArgument when it
\* carries no promotion piece ; accepted, it empties the origin and leaves
\* the chosen piece, which is no pawn, on the destination ; on every other
\* move the promotion piece changes nothing
Promotion ==
    [][calls' = calls + 1 =>
          /\ pawn_reaches_farthest_rank(game, mov') /\ mov'.promotion = None
                => result' = "InvalidArgument"
          /\ pawn_reaches_farthest_rank(game, mov') /\ result' = "Ok"
                => /\ promoted_to_choice(game, mov', game')
                   /\ piece_at(game'.board, mov'.to).piece # "Pawn"
          /\ ~pawn_reaches_farthest_rank(game, mov')
                => make_move(game, mov')
                     = make_move(game, Mov(mov'.from, mov'.to, None))]_vars

\* a pawn move to the farthest rank that carries a pawn as its promotion
\* piece is accepted as the other choices are
PromotionOfChoice ==
    [][calls' = calls + 1 =>
          /\ pawn_reaches_farthest_rank(game, mov') /\ mov'.promotion = None
                => result' = "InvalidArgument"
          /\ pawn_reaches_farthest_rank(game, mov') /\ result' = "Ok"
                => promoted_to_choice(game, mov', game')
          /\ ~pawn_reaches_farthest_rank(game, mov')
                => make_move(game, mov')
                     = make_move(game, Mov(mov'.from, mov'.to, None))]_vars
\* ------------------------------------------------------------------------
\* Properties of Game::new and Game::fen (SpecFen)
\* ------------------------------------------------------------------------
\* the parts of a string between the occurrences of a separator
RECURSIVE fields_from(_, _, _, _)
fields_from(text, sep, i, field) ==
    IF i > Len(text) THEN <<field>>
    ELSE IF text[i] = sep
    THEN <<field>> \o fields_from(text, sep, i + 1, <<>>)
    ELSE fields_from(text, sep, i + 1, Append(field, text[i]))

fields(text, sep) == fields_from(text, sep, 1, <<>>)

\* the squares one rank of a placement field covers
RECURSIVE rank_width(_)
rank_width(text) ==
    IF text = <<>> THEN 0
    ELSE (IF is_ascii_digit(Head(text)) THEN to_digit(Head(text)) ELSE 1)
             + rank_width(Tail(text))

\* a placement field places exactly 64 squares : eight ranks of eight
\* squares, written with piece letters and digits
placement_well_formed(placement) ==
    /\ Len(fields(placement, "/")) = 8
    /\ \A i \in DOMAIN fields(placement, "/") :
          /\ rank_width(fields(placement, "/")[i]) = 8
          /\ \A j \in DOMAIN fields(placement, "/")[i] :
                \/ is_ascii_digit(fields(placement, "/")[i][j])
                \/ piece_try_from_char(fields(placement, "/")[i][j]) # None

is_number(text) ==
    text # <<>> /\ \A i \in DOMAIN text : is_ascii_digit(text[i])

\* a string has the six fields, a well-formed placement, a side, and
\* numbers for the two clocks
fen_well_formed(fen) ==
    /\ Len(fields(fen, " ")) = 6
    /\ placement_well_formed(fields(fen, " ")[1])
    /\ fields(fen, " ")[2] \in {<<"w">>, <<"b">>}
    /\ is_number(fields(fen, " ")[5])
    /\ is_number(fields(fen, " ")[6])

\* C7 : Game::new returns a Game or InvalidArgument on every string; it does
\* not abort
NewNeverAborts == fen_result # "Panic"

\* C8 : for a well-formed string in canonical form, numbers of two digits
\* included, Game::new returns a Game and Game::fen writes the string back
FenRoundTrip ==
    fen_input \in CanonicalFens /\ fen_result # "Init"
        => /\ fen_result = "Ok"
           /\ fen_output # <<>> => fen_output = fen_input

\* C9 : Game::new fails with InvalidArgument on a placement that does not
\* place exactly 64 squares, on a malformed character, on a missing field
\* and on a non-digit where a number is expected
PlacementValidation ==
    fen_result # "Init" /\ ~fen_well_formed(fen_input)
        => fen_result = "InvalidArgument"

\* ------------------------------------------------------------------------
\* Properties of the perft program (SpecPerft)
\* ------------------------------------------------------------------------
\* the counts of the standard starting position at the depths 1, 2 and 3
PerftCounts == <<20, 400, 8902>>

\* main ran to its end from the starting position, with no moves given
perft_ran_from_start ==
    /\ perft_pc = "Done"
    /\ perft_args.fen = FEN_NEW_GAME
    /\ perft_args.movs = <<>>

\* C10 : from the standard starting position the sequences of legal moves
\* number 20 at depth 1, 400 at depth 2 and 8,902 at depth 3
PerftOracle ==
    perft_ran_from_start /\ perft_args.depth \in DOMAIN PerftCounts
        => perft_sum = PerftCounts[perft_args.depth]

\* main printed the sum of depth 3 for the starting position
PerftOracleWitness ==
    perft_ran_from_start /\ perft_args.depth = 3 /\ perft_sum = 8902

\* ------------------------------------------------------------------------
\* Properties of the contract (SpecHost)
\* ------------------------------------------------------------------------

\* C5 : all-or-nothing move application.  When the engine's make_move
\* returns InvalidArgument or IllegalMove to the make_move message, the
\* Game its caller holds, which is the stored game (board, state, zobrist,
\* halfmove clock, fullmove number), is exactly as before the call, and the
\* hash history of the contract is unchanged too
AllOrNothing ==
    [][(/\ host_calls' = host_calls + 1
        /\ host_engine' \in {"InvalidArgument", "IllegalMove"})
       => (/\ host'.game = host.game
           /\ host'.zobrist = host.zobrist
           /\ host_result' = host_engine')]_vars

\* a message the engine rejected, sent after a message that moved
AllOrNothingWitness ==
    /\ host_calls = 2
    /\ host_engine = "IllegalMove"
    /\ Len(host.zobrist) = 1
    /\ host.game.fullmove_number = 1
    /\ next_turn_side(host.game.state) = "Black"

\* ------------------------------------------------------------------------
\* Properties of two callers (SpecPaths)
\* ------------------------------------------------------------------------

\* C3 : hash path-independence.  Two sequences of accepted moves from the
\* same initial Game that end in the same piece placement, the same castling
\* rights, the same open en-passant files and the same side to move end in
\* equal zobrist values
PathIndependence ==
    (/\ path_a.board = path_b.board
     /\ path_a.state = path_b.state)
    => ZobristHash_value(path_a.zobrist) = ZobristHash_value(path_b.zobrist)

\* ------------------------------------------------------------------------
\* Properties of a caller that plays a line (SpecPlay)
\* ------------------------------------------------------------------------
\* f2f3, e7e5, g2g4, d8h4
FoolsMate ==
    <<Mov(13, 21, None), Mov(52, 36, None), Mov(14, 30, None),
      Mov(59, 31, None)>>

\* C11 : from the starting position each of f2f3, e7e5, g2g4, d8h4 is
\* accepted when presented in this order, and the Game after the four has
\* White to move, no legal move and the king of White in check
CheckmateDetection ==
    play_kind = "Mate" =>
        /\ \A i \in 0..3 :
              play_movs = SubSeq(FoolsMate, 1, i)
                  => make_move(play_game, FoolsMate[i + 1]).tag = "Ok"
        /\ play_movs = FoolsMate
              => /\ next_turn_side(play_game.state) = "White"
                 /\ ~has_legal_moves(play_game)
                 /\ is_check(play_game)

\* the four moves were accepted and the Game is a checkmate of White
CheckmateDetectionWitness ==
    /\ play_movs = FoolsMate
    /\ ~has_legal_moves(play_game)
    /\ is_check(play_game)

\* the castling move of the side on the wing
castling_mov(side, wing) ==
    Mov(king_origin(side),
        IF wing = "King" THEN king_origin(side) + 2 ELSE king_origin(side) - 2,
        None)

\* whether the side has made a move from the square in the moves, of which
\* the side first made the first
has_moved_from(movs, first, side, square) ==
    \E i \in DOMAIN movs :
       /\ movs[i].from = square
       /\ side = (IF i % 2 = 1 THEN first ELSE flip(first))

\* C14 : a king move revokes both rights of the mover, a rook move from its
\* original square revokes the right of its wing, no accepted move sets a
\* right that was cleared, and once the side has moved from the king's or
\* from the rook's original square the castling move of that wing, a move
\* of the king from its original square two files along the rank, is
\* rejected, also when king and rook stand on their original squares again
RightsLost ==
    [][play_movs' # play_movs =>
         LET m == play_movs'[Len(play_movs')]
             side == next_turn_side(play_game.state)
             piece == piece_at(play_game.board, m.from).piece
             first == IF Len(play_movs') % 2 = 1 THEN side ELSE flip(side)
         IN  /\ piece = "King" =>
                   \A wing \in Wings :
                      ~holds_right(play_game'.state, side, wing)
             /\ piece = "Rook" =>
                   \A wing \in Wings :
                      m.from = rook_origin(side, wing)
                         => ~holds_right(play_game'.state, side, wing)
             /\ \A s \in Sides, wing \in Wings :
                   ~holds_right(play_game.state, s, wing)
                      => ~holds_right(play_game'.state, s, wing)
             /\ \A s \in Sides, wing \in Wings :
                   (/\ \/ has_moved_from(play_movs', first, s, king_origin(s))
                       \/ has_moved_from(play_movs', first, s, rook_origin(s, wing))
                    /\ piece_at(play_game'.board, king_origin(s))
                          = [side |-> s, piece |-> "King"])
                      => make_move(play_game', castling_mov(s, wing)).tag
                            # "Ok"]_vars

\* the rook of a1 went to b1 and back while the black king went to f8 and
\* back : White is to move with king and rooks on their original squares
\* and an empty first rank between them, and castling queen side is rejected
RightsLostWitness ==
    /\ play_movs = <<Mov(0, 1, None), Mov(60, 61, None), Mov(1, 0, None),
                     Mov(61, 60, None)>>
    /\ piece_at(play_game.board, A1) = [side |-> "White", piece |-> "Rook"]
    /\ piece_at(play_game.board, E1) = [side |-> "White", piece |-> "King"]
    /\ occupied(play_game.board) \cap {1, 2, 3} = {}
    /\ ~holds_right(play_game.state, "White", "Queen")
    /\ holds_right(play_game.state, "White", "King")
    /\ make_move(play_game, castling_mov("White", "Queen")).tag = "IllegalMove"
    /\ make_move(play_game, castling_mov("White", "King")).tag = "Ok"


\* the files whose en-passant flag is set in a state
open_files(state) == {f \in 0..7 : en_passant_open(state, f)}

\* the square holds a pawn of the side and nothing else
holds_pawn_only(b, side, square) ==
    /\ square \in b.pawns
    /\ square \in pieces_by_side(b, side)
    /\ square \notin (b.knights \cup b.bishops \cup b.rooks
                        \cup b.queens \cup b.kings)

\* the move takes a pawn from its starting rank two ranks ahead on its file
is_double_push(g, m) ==
    /\ holds_pawn_only(g.board, next_turn_side(g.state), m.from)
    /\ FileOf(m.from) = FileOf(m.to)
    /\ <<RankOf(m.from), RankOf(m.to)>> \in {<<1, 3>>, <<6, 4>>}

\* C18 : in every Game an accepted move returns at most one en-passant flag
\* is set ; one is set exactly when the move was a pawn's double push, and
\* it is the flag of that pawn's file.
EnPassantLifetime ==
    [][LET last == play_movs'[Len(play_movs')]
       IN  open_files(play_game'.state)
             = IF is_double_push(play_game, last) THEN {FileOf(last.to)}
               ELSE {}]_vars
\* ------------------------------------------------------------------------
\* Properties of the material question (SpecMaterial)
\* ------------------------------------------------------------------------
\* the score of the pieces a side has on the board : a square counts as a
\* pawn when no other kind of piece is on it
material_score(b, side) ==
    LET own == pieces_by_side(b, side)
        minors == own \cap (b.knights \cup b.bishops)
        majors == own \cap (b.rooks \cup b.queens)
        pawns_only == (own \cap b.pawns)
                         \ (b.knights \cup b.bishops \cup b.rooks
                              \cup b.queens \cup b.kings)
    IN  Cardinality(minors) + 2 * Cardinality(majors)
          + 2 * Cardinality(pawns_only)

\* C20 : has_sufficient_mating_material returns false exactly when the score
\* of either side is at most 1, a knight or bishop counting 1, a pawn, rook
\* or queen 2 and the king 0
SufficientMaterial ==
    mat_result # "Init" =>
       (mat_result = "false"
          <=> /\ material_score(mat_game.board, "White") <= 1
              /\ material_score(mat_game.board, "Black") <= 1)

\* the same with the pieces as get_piece_at reports them, which takes a
\* square for a pawn whenever its pawns bit is set
SufficientMaterialAsRead ==
    mat_result # "Init" =>
       (mat_result = "false"
          <=> /\ mating_material_score(mat_game, "White") <= 1
              /\ mating_material_score(mat_game, "Black") <= 1)

\* ------------------------------------------------------------------------
\* Properties of the repetition rule (SpecRep)
\* ------------------------------------------------------------------------
\* where the stretch of Games since the last move that set the halfmove
\* clock to 0 begins
stretch_start(seen) ==
    Max({1} \cup {i \in DOMAIN seen : seen[i].halfmove_clock = 0})

\* how often the board and state of the newest Game occur in the stretch
occurrences(seen) ==
    Cardinality({i \in stretch_start(seen)..Len(seen) :
                    /\ seen[i].board = seen[Len(seen)].board
                    /\ seen[i].state = seen[Len(seen)].state})

\* the ends make_move declares before it touches the history
EarlierReasons == {"Checkmate", "Stalemate", "InsufficientMatingMaterial"}

RepetitionClearedWitness ==
    /\ Len(rep_seen) = 6
    /\ rep_seen[5].board = rep_seen[1].board
    /\ rep_seen[6].halfmove_clock = 0
    /\ rep_host.zobrist = <<rep_seen[6].zobrist>>
    /\ rep_over = NoGameOver

\* whether make_move accepts no move at all in the Game
accepts_no_move(g) ==
    \A from \in pieces_by_side(g.board, next_turn_side(g.state)) :
       \A to \in Squares, promotion \in {None, "Queen"} :
          make_move(g, Mov(from, to, promotion)).tag # "Ok"

\* whether the king of the side to move is attacked in the Game
king_of_mover_attacked(g) ==
    is_king_attacked(g.board, next_turn_side(g.state))

StalemateWitness ==
    /\ Len(rep_seen) = 2
    /\ piece_at(rep_seen[2].board, 53) = [side |-> "White", piece |-> "Queen"]
    /\ piece_at(rep_seen[2].board, 63) = [side |-> "Black", piece |-> "King"]
    /\ rep_over.reason = "Stalemate"
    /\ rep_over.winner = None

\* ------------------------------------------------------------------------
\* Properties of the packed form (SpecPack)
\* ------------------------------------------------------------------------
\* the promotions a move of the game carries
GamePromotions == {None, "Knight", "Bishop", "Rook", "Queen"}

\* the number whose bits 12-15 are code, bits 6-11 from and bits 0-5 to
packed(code, from_index, to_index) == code * 4096 + from_index * 64 + to_index

\* C23 : encode puts the promotion code in bits 12-15, from in bits 6-11 and
\* to in bits 0-5 ; for a Mov without promotion or with a knight, bishop,
\* rook or queen the code of a piece is not 0, and decode of the number
\* succeeds and gives the Mov back
PackingRoundTrip ==
    /\ pack_encoded # -1
          => pack_encoded = packed(IF pack_mov.promotion = None THEN 0
                                   ELSE piece_into_u8(pack_mov.promotion),
                                   pack_mov.from, pack_mov.to)
    /\ pack_encoded # -1 /\ pack_mov.promotion \in GamePromotions \ {None}
          => pack_encoded \div 4096 # 0
    /\ pack_decoded # Err("Init") /\ pack_mov.promotion \in GamePromotions
          => pack_decoded = [tag |-> "Ok", mov |-> pack_mov]

\* the Mov of the tests, g7 to b6 with a queen, packed as 0100 110111 101001
\* and unpacked again
PackingRoundTripWitness ==
    /\ pack_mov = Mov(55, 41, "Queen")
    /\ pack_encoded = 19945
    /\ pack_decoded = [tag |-> "Ok", mov |-> Mov(55, 41, "Queen")]

\* ------------------------------------------------------------------------
\* Properties of the key layout (SpecKey)
\* ------------------------------------------------------------------------
\* the place of a piece among pawn, knight, bishop, rook, queen, king
piece_number(piece) ==
    CHOOSE i \in 0..5 :
       <<"Pawn", "Knight", "Bishop", "Rook", "Queen", "King">>[i + 1] = piece

\* the index the layout gives a feature
layout_index(feature) ==
    CASE feature.kind = "Piece" ->
            384 * (IF feature.side = "White" THEN 0 ELSE 1)
              + 64 * piece_number(feature.piece) + feature.square
      [] feature.kind = "EnPassant" -> 768 + feature.file
      [] feature.kind = "QueenRight" ->
            IF feature.side = "White" THEN 776 ELSE 777
      [] feature.kind = "KingRight" ->
            IF feature.side = "White" THEN 778 ELSE 779
      [] feature.kind = "Turn" -> 780

\* C24 : the index of a piece on a square is 384 * side + 64 * piece +
\* square, of an open file 768 + file, of the queen-side rights 776 and 777,
\* of the king-side rights 778 and 779 and of the turn 780 ; no two features
\* have one index, and every index is a slot of the table of 781 keys
KeyLayout ==
    key_index # -1 =>
       /\ key_index = layout_index(key_feature)
       /\ key_index \in 0..780
       /\ key_index + 1 \in DOMAIN ZOBRIST_KEYS
       /\ Len(ZOBRIST_KEYS) = 781
       /\ \A other \in KeyFeatures :
             hash_key_index(other) = key_index => other = key_feature

\* the black king on h8 has the last index of the pieces
KeyLayoutWitness ==
    /\ key_feature = [kind |-> "Piece", side |-> "Black", piece |-> "King",
                      square |-> 63]
    /\ key_index = 767


\* ------------------------------------------------------------------------
\* The hash of a Board kept by the events of its plies
\* ------------------------------------------------------------------------
\* the ply the caller has just had accepted
accepted_ply == board_result' = "Ok" /\ board_ply' = board_ply + 1

\* C25 : applying the events of an accepted ply to the hash of the board the
\* ply was made on gives the hash ZobristHash::new computes of the board the
\* ply returned, and every NextTurn event among them, of either side, has
\* XORed the key of the turn into it
EventDrivenHash ==
    [][accepted_ply =>
          /\ ZobristHash_value(ZobristHash_apply(ZobristHash_new(board), board_events'))
                = ZobristHash_value(ZobristHash_new(board'))
          /\ \A i \in DOMAIN board_events' :
                board_events'[i].event = "NextTurn"
                   => event_keys(board_events'[i]) = {WHITE_TURN_HASH_KEY_INDEX}]_vars

\* ------------------------------------------------------------------------
\* The flags of the fixed starting position
\* ------------------------------------------------------------------------
\* C26 : the Board of Board::default has White to move, the queen-side and
\* the king-side castling right of both sides (bits 8 to 11), no en passant
\* file open and a halfmove clock of 0, as the FEN fields w KQkq - 0 1 say
StartingPositionFlags ==
    board = Board_default =>
       /\ get_whites_turn(board.flags)
       /\ \A side \in Sides :
             /\ queen_side_castling_right(board.flags, side)
             /\ king_side_castling_right(board.flags, side)
       /\ \A file \in 0..7 : ~en_passant_open(board.flags, file)
       /\ board.halfmove_clock = 0

\* ------------------------------------------------------------------------
\* The turn of a Board after an accepted ply
\* ------------------------------------------------------------------------
\* the side whose piece the events say has entered a square
mover(events) ==
    CHOOSE side \in Sides :
       \E i \in DOMAIN events :
          events[i].event = "PieceEnteredSquare" /\ events[i].side = side

next_turn_events(events) ==
    {i \in DOMAIN events : events[i].event = "NextTurn"}

\* C27 : an accepted ply, a double push of a pawn among them, returns a
\* Board whose side to move is the opponent of the side that moved, with one
\* and only one NextTurn event, which names that opponent; and the side that
\* moved is never the side of the ply accepted before it
BoardTurnFlip ==
    [][accepted_ply =>
          /\ get_side_turn(board') = flip(get_side_turn(board))
          /\ Cardinality(next_turn_events(board_events')) = 1
          /\ \A i \in next_turn_events(board_events') :
                board_events'[i].side = flip(get_side_turn(board))
          /\ board_ply >= 1 => mover(board_events') # mover(board_events)]_vars

\* ------------------------------------------------------------------------
\* Properties of is_attacked (SpecAttack)
\* ------------------------------------------------------------------------
Abs(n) == IF n < 0 THEN -n ELSE n

\* the squares strictly between two squares of one rank, file or diagonal
squares_between(from, to) ==
    LET step(a, c) == IF c > a THEN 1 ELSE IF c < a THEN -1 ELSE 0
        file_step == step(FileOf(from), FileOf(to))
        rank_step == step(RankOf(from), RankOf(to))
        length == Max({Abs(FileOf(to) - FileOf(from)), Abs(RankOf(to) - RankOf(from))})
    IN  {from + k * (file_step + 8 * rank_step) : k \in 1..(length - 1)}

\* whether the piece standing on `from` attacks `to`, by the rules of chess
attacks_by_rules(b, from, to) ==
    LET files == Abs(FileOf(to) - FileOf(from))
        ranks == Abs(RankOf(to) - RankOf(from))
        ahead == IF from \in b.white THEN 1 ELSE -1
        clear == squares_between(from, to) \cap occupied(b) = {}
        along_diagonal == files = ranks /\ files > 0 /\ clear
        along_line == (files = 0) # (ranks = 0) /\ clear
    IN  \/ from \in b.pawns /\ files = 1 /\ RankOf(to) - RankOf(from) = ahead
        \/ from \in b.knights /\ {files, ranks} = {1, 2}
        \/ from \in b.kings /\ Max({files, ranks}) = 1
        \/ from \in b.bishops /\ along_diagonal
        \/ from \in b.rooks /\ along_line
        \/ from \in b.queens /\ (along_diagonal \/ along_line)

\* whether some piece of the side attacks the square
side_attacks_by_rules(b, square, by_side) ==
    \E from \in get_pieces_by_side(b, by_side) : attacks_by_rules(b, from, square)

\* C28 : is_attacked(square, by_side) returns true exactly when a piece of
\* by_side attacks the square by the rules of chess : a white pawn from
\* diagonally below, a black pawn from diagonally above, a knight, a king,
\* or a bishop, rook or queen with nothing in between
IsAttackedByRules ==
    att_asked =>
       (att_result <=> side_attacks_by_rules(att_board, att_square, att_by_side))

\* the same with the pawns of Black left out of the question
IsAttackedByRulesButBlackPawns ==
    att_asked /\ ~(att_by_side = "Black" /\ att_board.pawns \cap att_board.black # {}) =>
       (att_result <=> side_attacks_by_rules(att_board, att_square, att_by_side))

\* ------------------------------------------------------------------------
\* Properties of get_ray_attacks (SpecRay)
\* ------------------------------------------------------------------------
\* the step of a direction, in files and in ranks
direction_step(direction) ==
    CASE direction = "North" -> <<0, 1>>
      [] direction = "NorthEast" -> <<1, 1>>
      [] direction = "East" -> <<1, 0>>
      [] direction = "SouthEast" -> <<1, -1>>
      [] direction = "South" -> <<0, -1>>
      [] direction = "SouthWest" -> <<-1, -1>>
      [] direction = "West" -> <<-1, 0>>
      [] direction = "NorthWest" -> <<-1, 1>>

\* the squares k steps from the origin, as far as the edge of the board : a
\* function from the number of steps to the square
ray_walk(origin, direction) ==
    LET step == direction_step(direction)
        on_board(k) == /\ FileOf(origin) + k * step[1] \in 0..7
                       /\ RankOf(origin) + k * step[2] \in 0..7
        length == Cardinality({k \in 1..7 : on_board(k)})
    IN  [k \in 1..length |-> origin + k * (step[1] + 8 * step[2])]

\* the walk cut after the first occupied square
ray_by_steps(taken, origin, direction) ==
    LET walk == ray_walk(origin, direction)
    IN  {walk[k] : k \in {n \in DOMAIN walk :
                             \A earlier \in 1..(n - 1) : walk[earlier] \notin taken}}

\* the first occupied square of the walk, as a set : empty when none is
nearest_taken(taken, origin, direction) ==
    LET walk == ray_walk(origin, direction)
    IN  {walk[k] : k \in {n \in DOMAIN walk :
                             /\ walk[n] \in taken
                             /\ \A earlier \in 1..(n - 1) : walk[earlier] \notin taken}}

\* the square the bit scan of get_ray_attacks takes among the occupied
\* squares of the ray : forward for a positive direction, reverse otherwise
scanned(blocker, direction) ==
    IF direction \in {"North", "NorthEast", "East", "NorthWest"}
    THEN {bit_scan_forward(blocker)} ELSE {bit_scan_reverse(blocker)}

\* C29 : get_ray_attacks returns the squares of the ray from the origin, the
\* origin left out, up to and with the nearest occupied square, or to the
\* edge of the board when no square of the ray is occupied; the occupied
\* squares of the ray are scanned forward for North, NorthEast, East and
\* NorthWest and in reverse for the other four, only when there is one, and
\* the scan gives the nearest
SlidingRay ==
    ray_asked =>
       LET taken == occupied(ray_board)
           blocker == ray_mask(ray_square, ray_direction) \cap taken
       IN  /\ ray_attacks = ray_by_steps(taken, ray_square, ray_direction)
           /\ direction_negative(ray_direction)
                 <=> ray_direction \in {"SouthEast", "South", "SouthWest", "West"}
           /\ blocker # {} =>
                 scanned(blocker, ray_direction)
                    = nearest_taken(taken, ray_square, ray_direction)
           /\ blocker = {} => ray_attacks = ray_mask(ray_square, ray_direction)

\* a ray towards the north west with two occupied squares on it, cut at the
\* nearer of the two
SlidingRayWitness ==
    /\ ray_asked
    /\ ray_direction = "NorthWest"
    /\ ray_square = 4
    /\ occupied(ray_board) = {11, 25, 35}
    /\ ray_attacks = {11}

\* ------------------------------------------------------------------------
\* Properties of the pseudo-legal destinations of a pawn (SpecPawn)
\* ------------------------------------------------------------------------
\* the destinations the rules give the pawn on `from` : the square ahead
\* when empty, the square two ahead from the initial rank when both are
\* empty, and a diagonal square ahead that holds a piece of the other side
\* or is the en passant target of an open file
pawn_by_rules(b, from) ==
    LET side == IF from \in b.white THEN "White" ELSE "Black"
        ahead == IF side = "White" THEN 8 ELSE -8
        initial_rank == IF side = "White" THEN 1 ELSE 6
        target_rank == IF side = "White" THEN 5 ELSE 2
        empty == FULL \ occupied(b)
        one == {from + ahead} \cap empty
        two == IF RankOf(from) = initial_rank /\ one # {}
               THEN {from + 2 * ahead} \cap empty ELSE {}
        diagonals == {from + ahead + side_step : side_step \in
                         {d \in {-1, 1} : FileOf(from) + d \in 0..7}}
        taken == get_pieces_by_side(b, flip(side))
        en_passant == {square \in diagonals :
                          /\ RankOf(square) = target_rank
                          /\ en_passant_open(b.flags, FileOf(square))}
    IN  one \cup two \cup (diagonals \cap (taken \cup en_passant))

\* C30 : the pseudo-legal destinations of the pawn on `from` are those the
\* pawn itself reaches : the empty square ahead, the empty square two ahead
\* from the initial rank over an empty square, and the diagonal squares
\* ahead that hold a piece of the other side, of any kind, or are the en
\* passant target of an open file; no destination comes from another pawn
PawnDestinations ==
    pawn_asked => pawn_moves = pawn_by_rules(pawn_board, pawn_from)

\* the half of it that says the set holds no other square
PawnDestinationsOnly ==
    pawn_asked => pawn_moves \subseteq pawn_by_rules(pawn_board, pawn_from)

\* the half of it that says the set holds every such square
PawnDestinationsAll ==
    pawn_asked => pawn_by_rules(pawn_board, pawn_from) \subseteq pawn_moves

\* ------------------------------------------------------------------------
\* The capture of a pawn move that changes file
\* ------------------------------------------------------------------------
\* the square directly behind `to`, seen from the side that moves
square_behind(side, to) == IF side = "White" THEN to - 8 ELSE to + 8

\* what the claim says of a pawn move from `from` to another file : the
\* sets are the squares of the mover and of the opponent, before and after
one_piece_captured(side, from, to, own, own_after, opp, opp_after, pawns) ==
    LET captured_square == IF to \in opp THEN to ELSE square_behind(side, to)
    IN  /\ captured_square \in opp
        /\ to \notin opp => captured_square \in pawns
        /\ opp_after = opp \ {captured_square}
        /\ own_after = (own \ {from}) \cup {to}

\* C31 : an accepted pawn move that changes file removes one piece of the
\* opponent and no other : the piece on `to` when `to` holds one of the
\* opponent's, else the opponent pawn directly behind `to`, a square that
\* then always holds a piece of the opponent.  Here for Board::try_make_move ;
\* the pawn moved is the one the events name
PawnCaptureResolution ==
    [][accepted_ply =>
          \A i \in DOMAIN board_events' :
             \A j \in DOMAIN board_events' :
                LET left == board_events'[i]
                    entered == board_events'[j]
                    side == get_side_turn(board)
                IN  /\ left.event = "PieceLeftSquare"
                    /\ entered.event = "PieceEnteredSquare"
                    /\ left.side = side /\ left.piece = "Pawn"
                    /\ j = i + 1
                    /\ FileOf(left.at) # FileOf(entered.at)
                    => one_piece_captured(side, left.at, entered.at,
                          get_pieces_by_side(board, side),
                          get_pieces_by_side(board', side),
                          get_pieces_by_side(board, flip(side)),
                          get_pieces_by_side(board', flip(side)),
                          board.pawns)]_vars

\* the same for Game::make_move ; the pawn moved is the piece piece_at
\* reads as a pawn on the origin of the move
PawnCaptureResolutionOfGame ==
    [][result' = "Ok" /\ calls' = calls + 1
          /\ piece_at(game.board, mov'.from).piece = "Pawn"
          /\ FileOf(mov'.from) # FileOf(mov'.to)
          => LET side == next_turn_side(game.state)
             IN  one_piece_captured(side, mov'.from, mov'.to,
                    pieces_by_side(game.board, side),
                    pieces_by_side(game'.board, side),
                    pieces_by_side(game.board, flip(side)),
                    pieces_by_side(game'.board, flip(side)),
                    game.board.pawns)]_vars

\* an en passant capture the engine has accepted
PawnCaptureResolutionOfGameWitness ==
    /\ result = "Ok" /\ calls = 2
    /\ mov = Mov(36, 43, None)
    /\ pieces_by_side(game.board, "Black") = {60}
    /\ 43 \in pieces_by_side(game.board, "White")

\* ------------------------------------------------------------------------
\* The rook of a castling move
\* ------------------------------------------------------------------------
\* the rooks of a side on a board
rooks_of(b, side) == pieces_by_side(b, side) \cap b.rooks

\* the corner the rook leaves and the square it enters, for the target the
\* king of the side moves to from its original square; <<>> for any other
\* move
rook_relocation(side, from, to) ==
    LET home == IF side = "White" THEN E1 ELSE E8
    IN  IF from = home /\ to = home + 2 THEN <<home + 3, home + 1>>
        ELSE IF from = home /\ to = home - 2 THEN <<home - 4, home - 1>>
        ELSE <<>>

\* C32 : an accepted king move that captures nothing, from the original
\* square of the king to the king-side target, has taken the rook of the
\* mover from the h-file corner to the f-file square, and one to the
\* queen-side target from the a-file corner to the d-file square; the
\* origins of king and rook are empty afterwards; after any other king move
\* the rooks of the mover stand where they stood
CastlingRook ==
    [][result' = "Ok" /\ calls' = calls + 1
          /\ piece_at(game.board, mov'.from).piece = "King"
          => LET side == next_turn_side(game.state)
                 rook == rook_relocation(side, mov'.from, mov'.to)
             IN  IF rook # <<>> /\ mov'.to \notin pieces_by_side(game.board, flip(side))
                 THEN /\ rook[1] \in rooks_of(game.board, side)
                      /\ rooks_of(game'.board, side)
                            = (rooks_of(game.board, side) \ {rook[1]}) \cup {rook[2]}
                      /\ {mov'.from, rook[1]} \cap occupied(game'.board) = {}
                      /\ piece_at(game'.board, mov'.to) = [side |-> side, piece |-> "King"]
                 ELSE rooks_of(game'.board, side) = rooks_of(game.board, side)]_vars

\* White has castled queen side, and then Black king side
CastlingRookWitness ==
    /\ result = "Ok" /\ calls = 2
    /\ mov = Mov(E8, G8, None)
    /\ rooks_of(game.board, "White") = {D1, H1}
    /\ rooks_of(game.board, "Black") = {A8, F8}
    /\ game.board.kings = {C1, G8}

\* ------------------------------------------------------------------------
\* Properties of the shifts by one (SpecShift)
\* ------------------------------------------------------------------------
\* the square one step from a square in a direction, as a set : empty when
\* the step leaves the board
neighbour(square, direction) ==
    LET step == direction_step(direction)
        file == FileOf(square) + step[1]
        rank == RankOf(square) + step[2]
    IN  IF file \in 0..7 /\ rank \in 0..7 THEN {8 * rank + file} ELSE {}

neighbours(bb, direction) == UNION {neighbour(square, direction) : square \in bb}

\* C33 : each of the eight shifts by one returns the neighbours, in its
\* direction, of the squares of the set that lie on the board : a shift to
\* the east returns no square of file A for a square of file H, a shift to
\* the west no square of file H for a square of file A, and a shift to the
\* north or the south drops the squares past rank 8 or rank 1
ShiftNeverWraps ==
    shift_direction # None =>
       /\ shift_result = neighbours(shift_set, shift_direction)
       /\ shift_direction \in {"East", "NorthEast", "SouthEast"}
             => shift_result \cap FILE_A = {}
       /\ shift_direction \in {"West", "NorthWest", "SouthWest"}
             => shift_result \cap FILE_H = {}

\* h4 and a5 shifted to the east : h4 has no neighbour, a5 gives b5, and a5
\* is not returned for h4
ShiftNeverWrapsWitness ==
    /\ shift_direction = "East"
    /\ shift_set = {31, 32}
    /\ shift_result = {33}


\* ------------------------------------------------------------------------
\* Properties of the knight mask of the table of offsets (SpecKnight)
\* ------------------------------------------------------------------------
\* the squares a knight's move away : one file and two ranks, or two files
\* and one rank
knight_by_rules(square) ==
    {target \in Squares :
        {Abs(FileOf(target) - FileOf(square)),
         Abs(RankOf(target) - RankOf(square))} = {1, 2}}

\* C34 : the knight mask of the table of offsets holds exactly the squares a
\* knight's move away from the square, none of them across an edge of the
\* board, and equals the knight mask computed by shifts and file masks
KnightMask ==
    knight_asked =>
       /\ knight_mask = knight_by_rules(knight_square)
       /\ knight_mask = knight_attacks_mask(knight_square)

\* the mask computed by shifts and file masks holds the squares a knight's
\* move away
KnightMaskOfShifts ==
    knight_asked => knight_attacks_mask(knight_square) = knight_by_rules(knight_square)

\* the mask of the table of offsets holds the squares a knight's move away
\* when the square is on none of the files A, B, G and H
KnightMaskOffTheEdges ==
    knight_asked /\ FileOf(knight_square) \in 2..5
       => knight_mask = knight_by_rules(knight_square)

\* the mask of h1 holds b1, b3 and a4, across the edge of the board
KnightMaskAcrossTheEdge ==
    /\ knight_asked
    /\ knight_square = 7
    /\ knight_mask = {1, 13, 17, 22, 24}


\* ------------------------------------------------------------------------
\* Properties of en_passant_open_files (SpecFiles)
\* ------------------------------------------------------------------------
\* the numbers of a set in ascending order
ascending(numbers) ==
    [i \in 1..Cardinality(numbers) |->
        CHOOSE n \in numbers : Cardinality({lower \in numbers : lower < n}) = i - 1]

\* C35 : en_passant_open_files returns the files whose bit is set among the
\* bits 0 to 7, in ascending order, for every value of these bits, those
\* with two or more bits set among them, and never aborts on the conversion
\* of an index to a file
OpenFilesAreSetBits ==
    files_asked =>
       /\ files_result # "Panic"
       /\ files_result = ascending(files_state \cap (0..7))

\* the same for the values with at most one bit set
OpenFilesOfOneBit ==
    files_asked /\ Cardinality(files_state \cap (0..7)) <= 1
       => /\ files_result # "Panic"
          /\ files_result = ascending(files_state \cap (0..7))

\* the bits of the files B and D give the files B and E
OpenFilesOfTwoBits ==
    /\ files_asked
    /\ files_state = {1, 3}
    /\ files_result = <<1, 4>>

\* the bits of the files G and H : the second index is 13 and the call aborts
OpenFilesAbort ==
    /\ files_asked
    /\ files_state = {6, 7}
    /\ files_result = "Panic"


\* ------------------------------------------------------------------------
\* Properties of the kings and the castling rights over accepted moves (Spec)
\* ------------------------------------------------------------------------
one_king_per_side(position) ==
    \A side \in Sides : Cardinality(king_squares(position, side)) = 1

\* C36 : in every Game reached by accepted make_move calls, with any Mov a
\* caller can make, any promotion piece among them, each side has exactly one
\* king on the board
OneKingPerSide == one_king_per_side(game.board)

\* an accepted move that does not promote to a king keeps one king per side
OneKingPerSideKept ==
    [][/\ result' = "Ok"
       /\ calls' = calls + 1
       /\ one_king_per_side(game.board)
       /\ ~(/\ mov'.promotion = "King"
            /\ piece_at(game.board, mov'.from).piece = "Pawn")
       => one_king_per_side(game'.board)]_vars

\* the pawn on a7 has taken the knight on b8 and is a second white king
OneKingPerSideLost ==
    /\ result = "Ok"
    /\ mov = Mov(48, 57, "King")
    /\ king_squares(game.board, "White") = {4, 57}


\* ------------------------------------------------------------------------
\* legal_moves against make_move (Spec)
\* ------------------------------------------------------------------------
\* the promotion pieces of the rules
RulePromotions == {"Knight", "Bishop", "Rook", "Queen"}

\* the moves a caller following the rules presents : a promotion piece of
\* the rules exactly when a pawn reaches the farthest rank.  make_move turns
\* down a destination outside the pseudo-legal ones before anything else, so
\* the destinations are drawn from these
presented_moves(position) ==
    UNION {LET promotes == /\ piece_at(position.board, from).piece = "Pawn"
                           /\ RankOf(to) \in {0, 7}
           IN  {Mov(from, to, promotion) :
                   promotion \in IF promotes THEN RulePromotions ELSE {None}} :
           <<from, to>> \in
              UNION {{<<origin, target>> :
                        target \in Game_pseudo_legal_moves_from(position, origin)} :
                     origin \in Squares}}

accepted_moves(position) ==
    {presented \in presented_moves(position) :
        make_move(position, presented).tag = "Ok"}

\* C37 : in every Game a run starts from or an accepted move has just
\* returned, legal_moves returns, every move it returns
\* is accepted by make_move, every move of the rules' form that make_move
\* accepts is returned by legal_moves, and has_legal_moves is true exactly
\* when legal_moves returns a move
MoveGenerationAgrees ==
    LET returned == legal_moves(game)
    IN  calls = 0 \/ result = "Ok" =>
        /\ ~legal_moves_panics(game)
        /\ \A offered \in returned : make_move(game, offered).tag = "Ok"
        /\ accepted_moves(game) \subseteq returned
        /\ has_legal_moves(game) <=> returned # {}

\* after a first accepted move Black's pawn on h2 may promote on h1 : the
\* move to a knight is returned by legal_moves and accepted by make_move
MoveGenerationAgreesWitness ==
    /\ result = "Ok"
    /\ calls = 1
    /\ Mov(15, 7, "Knight") \in legal_moves(game)
    /\ Mov(15, 7, "Knight") \in accepted_moves(game)
    /\ has_legal_moves(game)

\* the queen has gone to f8 and f7 : Black, to move, has no move that
\* make_move accepts, legal_moves returns none and has_legal_moves is false
MoveGenerationOfNoMove ==
    /\ result = "Ok"
    /\ calls = 1
    /\ mov.from = 5
    /\ mov.to \in {61, 53}
    /\ accepted_moves(game) = {}
    /\ legal_moves(game) = {}
    /\ ~has_legal_moves(game)


\* ------------------------------------------------------------------------
\* The castling rights and the home squares (SpecCorners)
\* ------------------------------------------------------------------------
\* a right of a side has its king on the home square and a rook of the side
\* on the corner of the wing
rights_have_home(position) ==
    \A side \in Sides :
       LET home == IF side = "White" THEN E1 ELSE E8
           king_corner == IF side = "White" THEN H1 ELSE H8
           queen_corner == IF side = "White" THEN A1 ELSE A8
           own == pieces_by_side(position.board, side)
       IN  /\ king_side_castling_right(position.state, side)
              => /\ home \in own \cap position.board.kings
                 /\ king_corner \in own \cap position.board.rooks
           /\ queen_side_castling_right(position.state, side)
              => /\ home \in own \cap position.board.kings
                 /\ queen_corner \in own \cap position.board.rooks

\* C38 : in every Game reached by accepted moves, a side that holds a
\* castling right has its king on e1 or e8 and a rook of its own on the
\* corner of that wing
RightsHaveHome == rights_have_home(game)

\* the pawn of g7 has taken the rook of h8 and is a queen : Black has lost
\* the right of the king's wing by the capture and keeps that of the queen's
\* wing, with the king on e8 and the rook on a8
RightsHaveHomeWitness ==
    /\ result = "Ok"
    /\ mov = Mov(54, H8, "Queen")
    /\ ~king_side_castling_right(game.state, "Black")
    /\ queen_side_castling_right(game.state, "Black")
    /\ rooks_of(game.board, "Black") = {A8}
    /\ king_squares(game.board, "Black") = {E8}


\* ------------------------------------------------------------------------
\* The material test of the make_move message (SpecTaking)
\* ------------------------------------------------------------------------
\* C39 : when the engine accepts the move of a make_move message and the
\* opponent has a legal move in the Game the engine returned, the message
\* ends the game for InsufficientMatingMaterial exactly when the Game the
\* engine returned, not the Game stored before the move, has insufficient
\* mating material for both sides.  The move is any whose outcome is the
\* step taken
MaterialOfNewPosition ==
    [][host_calls' = host_calls + 1 =>
         \A caller \in Accounts, from \in Squares :
            \A to \in Destinations(host.game, from) :
               LET out == DotChess_make_move(
                              host,
                              [caller |-> caller, block |-> host_block,
                               balance |-> HostBalance],
                              MoveText(from, to, None))
                   res == make_move(host.game, Mov(from, to, None))
               IN  /\ out.engine = "Ok"
                   /\ out.result = host_result'
                   /\ out.over = host_over'
                   /\ out.event = host_event'
                   /\ out.result # "Panic" => out.self = host'
                   /\ res.tag = "Ok"
                   /\ has_legal_moves(res.game)
                   => (host_over'.reason = "InsufficientMatingMaterial"
                          <=> no_side_have_sufficient_mating_material(res.game))]_vars

\* what the message does : for every move the engine accepts from the
\* stored Game and that leaves the opponent a move, the game ends for
\* InsufficientMatingMaterial exactly when the stored Game has insufficient
\* mating material
MaterialOfStoredPosition ==
    host_over = NoGameOver =>
       \A caller \in Accounts, from \in Squares :
          \A to \in Destinations(host.game, from) :
             LET out == DotChess_make_move(
                            host,
                            [caller |-> caller, block |-> host_block,
                             balance |-> HostBalance],
                            MoveText(from, to, None))
                 res == make_move(host.game, Mov(from, to, None))
             IN  /\ out.engine = "Ok"
                 /\ res.tag = "Ok"
                 /\ has_legal_moves(res.game)
                 => (out.over.reason = "InsufficientMatingMaterial"
                        <=> no_side_have_sufficient_mating_material(host.game))

\* the king has taken the queen on g2 : two kings are left, Black has a
\* move, and the game goes on
MaterialOfOldPosition ==
    /\ host_calls = 1
    /\ host_result = "Ok"
    /\ host_over = NoGameOver
    /\ occupied(host.game.board) = {14, 63}
    /\ has_legal_moves(host.game)
    /\ no_side_have_sufficient_mating_material(host.game)

\* one move later the game is over for InsufficientMatingMaterial
MaterialOneMoveLate ==
    /\ host_calls = 2
    /\ host_over.reason = "InsufficientMatingMaterial"
    /\ occupied(host.game.board) = {14, 63}


====
